---- MODULE Spec2Model ----
(***************************************************************************)
(* A model of the email-code-orchestrator: the text extractors             *)
(* (extractor.ts), the Telegram notifier (messaging/telegram.ts), the      *)
(* household Automator seen from its caller (browser-automation.ts) and    *)
(* the orchestrator loop fetchEmails (index.ts).                           *)
(*                                                                         *)
(* Texts are TLA+ strings handled as character sequences, so the regular   *)
(* expressions of the source are computed position by position.            *)
(***************************************************************************)
EXTENDS Integers, Sequences, FiniteSets, TLC

(***************************************************************************)
(* Characters and JavaScript string primitives                             *)
(***************************************************************************)

\* The i-th character of s (a one-character string).
Ch(s, i) == SubSeq(s, i, i)

\* s.substring(i - 1, j): the characters i..j of s, clamped to its length.
Slice(s, i, j) ==
    IF i > Len(s) \/ j < i THEN ""
    ELSE SubSeq(s, i, IF j > Len(s) THEN Len(s) ELSE j)

\* \d of a JavaScript regular expression.
Digits == {"0", "1", "2", "3", "4", "5", "6", "7", "8", "9"}
IsDigit(c) == c \in Digits

\* toLowerCase of the letters A-Z.
LowerOf ==
    [A |-> "a", B |-> "b", C |-> "c", D |-> "d", E |-> "e", F |-> "f", G |-> "g",
     H |-> "h", I |-> "i", J |-> "j", K |-> "k", L |-> "l", M |-> "m", N |-> "n",
     O |-> "o", P |-> "p", Q |-> "q", R |-> "r", S |-> "s", T |-> "t", U |-> "u",
     V |-> "v", W |-> "w", X |-> "x", Y |-> "y", Z |-> "z"]

Uppers == DOMAIN LowerOf
Lowers == {LowerOf[c] : c \in Uppers}

\* \w of a JavaScript regular expression: [A-Za-z0-9_].
WordChars == Digits \cup Uppers \cup Lowers \cup {"_"}
IsWordChar(c) == c \in WordChars

\* \s of a JavaScript regular expression (the white space the model's texts use).
IsSpace(c) == c \in {" ", "\n", "\t"}

\* One character of String.prototype.toLowerCase.
LowerCh(c) == IF c \in Uppers THEN LowerOf[c] ELSE c

\* String.prototype.toLowerCase (character by character, by halves).
RECURSIVE ToLower(_)
ToLower(s) ==
    IF Len(s) = 0 THEN ""
    ELSE IF Len(s) = 1 THEN LowerCh(s)
    ELSE ToLower(SubSeq(s, 1, Len(s) \div 2))
           \o ToLower(SubSeq(s, (Len(s) \div 2) + 1, Len(s)))

\* The least element of a set of positions, 0 for the empty set.
FirstIn(S) == IF S = {} THEN 0 ELSE CHOOSE m \in S : \A n \in S : m <= n

\* p occurs in s at position i.
StartsWithAt(s, i, p) ==
    /\ i >= 1
    /\ i + Len(p) - 1 <= Len(s)
    /\ SubSeq(s, i, i + Len(p) - 1) = p

\* String.prototype.includes, for a non-empty p.
Includes(s, p) == \E i \in 1..(Len(s) - Len(p) + 1) : StartsWithAt(s, i, p)

RECURSIVE ReplaceAllFrom(_, _, _, _)
ReplaceAllFrom(s, i, from, to) ==
    LET j == FirstIn({k \in i..Len(s) : StartsWithAt(s, k, from)})
    IN  IF j = 0 THEN Slice(s, i, Len(s))
        ELSE Slice(s, i, j - 1) \o to \o ReplaceAllFrom(s, j + Len(from), from, to)

\* s.replace(/from/g, to) for a literal pattern.
ReplaceAll(s, from, to) == ReplaceAllFrom(s, 1, from, to)

RECURSIVE UniqueFrom(_, _, _)
UniqueFrom(seq, i, acc) ==
    IF i > Len(seq) THEN acc
    ELSE IF \E k \in 1..Len(acc) : acc[k] = seq[i]
         THEN UniqueFrom(seq, i + 1, acc)
         ELSE UniqueFrom(seq, i + 1, Append(acc, seq[i]))

\* [...new Set(matches)]: duplicates dropped, first-seen order kept.
Unique(seq) == UniqueFrom(seq, 1, <<>>)

(***************************************************************************)
(* extractor.ts: extractCodes                                              *)
(***************************************************************************)

\* Digits of a code: \d{6}.
CODE_LEN == 6

\* CODE_REGEX without its two \b: six digits anywhere.
CodeAtAnywhere(text, i) ==
    /\ i + CODE_LEN - 1 <= Len(text)
    /\ \A k \in i..(i + CODE_LEN - 1) : IsDigit(Ch(text, k))

\* /\b\d{6}\b/ matches at position i.
CodeAt(text, i) ==
    /\ i + CODE_LEN - 1 <= Len(text)
    /\ \A k \in i..(i + CODE_LEN - 1) : IsDigit(Ch(text, k))
    /\ (i = 1 \/ ~IsWordChar(Ch(text, i - 1)))
    /\ (i + CODE_LEN - 1 = Len(text) \/ ~IsWordChar(Ch(text, i + CODE_LEN)))

\* text.match(CODE_REGEX) with the g flag: leftmost matches, not overlapping.
RECURSIVE ScanCodes(_, _)
ScanCodes(text, i) ==
    LET j == FirstIn({k \in i..Len(text) : CodeAt(text, k)})
    IN  IF j = 0 THEN <<>>
        ELSE <<SubSeq(text, j, j + CODE_LEN - 1)>> \o ScanCodes(text, j + CODE_LEN)

extractCodes(text) == IF text = "" THEN <<>> ELSE Unique(ScanCodes(text, 1))

(***************************************************************************)
(* extractor.ts: extractLinks, filterCodeLinks                             *)
(***************************************************************************)

\* [^\s<>"] of LINK_REGEX and of the household link patterns.
IsLinkChar(c) == ~IsSpace(c) /\ c \notin {"<", ">", "\""}

\* The last index of the maximal run of link characters starting at i
\* (i - 1 when the run is empty).
LinkRunEnd(s, i) ==
    LET j == FirstIn({k \in i..Len(s) : ~IsLinkChar(Ch(s, k))})
    IN  IF j = 0 THEN Len(s) ELSE j - 1

\* Length of the text https?:\/\/ matches at i, ignoring case (0: no match).
SchemeLen(html, i) ==
    IF StartsWithAt(ToLower(Slice(html, i, i + 7)), 1, "https://") THEN 8
    ELSE IF StartsWithAt(ToLower(Slice(html, i, i + 6)), 1, "http://") THEN 7
    ELSE 0

\* /https?:\/\/[^\s<>"]+/i matches at position i.
LinkAt(html, i) ==
    /\ SchemeLen(html, i) > 0
    /\ LinkRunEnd(html, i + SchemeLen(html, i)) >= i + SchemeLen(html, i)

\* html.match(LINK_REGEX) with the g flag.
RECURSIVE ScanLinks(_, _)
ScanLinks(html, i) ==
    LET j == FirstIn({k \in i..Len(html) : LinkAt(html, k)})
    IN  IF j = 0 THEN <<>>
        ELSE LET e == LinkRunEnd(html, j + SchemeLen(html, j))
             IN  <<SubSeq(html, j, e)>> \o ScanLinks(html, e + 1)

extractLinks(html) == IF html = "" THEN <<>> ELSE Unique(ScanLinks(html, 1))

CODE_LINK_KEYWORDS ==
    <<"code", "verify", "verifizierung", "anfordern", "bestätigung",
      "confirmation", "activate">>

\* The predicate of filterCodeLinks: some keyword occurs in the lower-cased URL.
IsCodeLink(link) ==
    LET lowerLink == ToLower(link)
    IN  \E k \in 1..Len(CODE_LINK_KEYWORDS) : Includes(lowerLink, CODE_LINK_KEYWORDS[k])

filterCodeLinks(links) == SelectSeq(links, IsCodeLink)

(***************************************************************************)
(* extractor.ts: extractCodesWithContext                                   *)
(***************************************************************************)

\* s has \d{6} at i.
SixDigitsAt(s, i) ==
    /\ i >= 1
    /\ i + CODE_LEN - 1 <= Len(s)
    /\ \A k \in i..(i + CODE_LEN - 1) : IsDigit(Ch(s, k))

\* Some word of the sequence words occurs in the lower-cased text low at i.
AnyWordAt(low, i, words) == \E k \in 1..Len(words) : StartsWithAt(low, i, words[k])

\* The length of the first alternative of words that occurs in low at i.
WordLenAt(low, i, words) ==
    Len(words[CHOOSE k \in 1..Len(words) :
                /\ StartsWithAt(low, i, words[k])
                /\ \A j \in 1..(k - 1) : ~StartsWithAt(low, i, words[j])])

\* The last index of the maximal run of [\s:] starting at i.
SepColonRunEnd(s, i) ==
    LET j == FirstIn({k \in i..Len(s) : ~(IsSpace(Ch(s, k)) \/ Ch(s, k) = ":")})
    IN  IF j = 0 THEN Len(s) ELSE j - 1

\* The last index of the maximal run of [\s\-] starting at i.
SepDashRunEnd(s, i) ==
    LET j == FirstIn({k \in i..Len(s) : ~(IsSpace(Ch(s, k)) \/ Ch(s, k) = "-")})
    IN  IF j = 0 THEN Len(s) ELSE j - 1

\* The first index >= i of character c in s, 0 when there is none.
IndexOfFrom(s, i, c) == FirstIn({k \in i..Len(s) : Ch(s, k) = c})

KeywordBefore == <<"code", "verification", "verify", "zugangscode", "pin">>
KeywordAfter  == <<"is your", "verification", "access">>

\* contextPatterns[0], /(?:code|verification|verify|zugangscode|pin)[\s:]+(\d{6})/gi,
\* at i: the position of the captured group, 0 when it does not match. The
\* separators and the digits are disjoint, so the separator run is the maximal one.
PatternBeforeAt(html, low, i) ==
    IF ~AnyWordAt(low, i, KeywordBefore) THEN 0
    ELSE LET \* an alternative after which the rest of the pattern matches
             ok(k) == /\ StartsWithAt(low, i, KeywordBefore[k])
                      /\ LET s == i + Len(KeywordBefore[k])
                             e == SepColonRunEnd(html, s)
                         IN  e >= s /\ SixDigitsAt(html, e + 1)
         IN  IF \E k \in 1..Len(KeywordBefore) : ok(k)
             THEN LET k == CHOOSE k \in 1..Len(KeywordBefore) : ok(k)
                  IN  SepColonRunEnd(html, i + Len(KeywordBefore[k])) + 1
             ELSE 0

\* contextPatterns[1], /(\d{6})[\s\-]+(?:is your|verification|access)/gi, at i:
\* the index after the match, 0 when it does not match (the group starts at i).
PatternAfterAt(html, low, i) ==
    IF ~SixDigitsAt(html, i) THEN 0
    ELSE LET s == i + CODE_LEN
             e == SepDashRunEnd(html, s)
         IN  IF e >= s /\ AnyWordAt(low, e + 1, KeywordAfter)
             THEN e + 1 + WordLenAt(low, e + 1, KeywordAfter)
             ELSE 0

\* contextPatterns[2], /<[^>]*>(\d{6})<\/[^>]*>/gi, at i: the position of the
\* captured group, 0 when it does not match.
PatternTagAt(html, i) ==
    IF Ch(html, i) # "<" THEN 0
    ELSE LET j == IndexOfFrom(html, i + 1, ">")
         IN  IF /\ j > 0
                /\ SixDigitsAt(html, j + 1)
                /\ StartsWithAt(html, j + 1 + CODE_LEN, "</")
                /\ IndexOfFrom(html, j + 3 + CODE_LEN, ">") > 0
             THEN j + 1
             ELSE 0

\* html.matchAll(contextPatterns[0]): the captured groups, in order.
RECURSIVE ScanBefore(_, _, _)
ScanBefore(html, low, i) ==
    LET j == FirstIn({k \in i..Len(html) : PatternBeforeAt(html, low, k) > 0})
    IN  IF j = 0 THEN <<>>
        ELSE LET g == PatternBeforeAt(html, low, j)
             IN  <<SubSeq(html, g, g + CODE_LEN - 1)>> \o ScanBefore(html, low, g + CODE_LEN)

\* html.matchAll(contextPatterns[1]).
RECURSIVE ScanAfter(_, _, _)
ScanAfter(html, low, i) ==
    LET j == FirstIn({k \in i..Len(html) : PatternAfterAt(html, low, k) > 0})
    IN  IF j = 0 THEN <<>>
        ELSE <<SubSeq(html, j, j + CODE_LEN - 1)>>
               \o ScanAfter(html, low, PatternAfterAt(html, low, j))

\* html.matchAll(contextPatterns[2]).
RECURSIVE ScanTag(_, _)
ScanTag(html, i) ==
    LET j == FirstIn({k \in i..Len(html) : PatternTagAt(html, k) > 0})
    IN  IF j = 0 THEN <<>>
        ELSE LET g == PatternTagAt(html, j)
             IN  <<SubSeq(html, g, g + CODE_LEN - 1)>>
                   \o ScanTag(html, IndexOfFrom(html, g + CODE_LEN + 2, ">") + 1)

\* html.length below which the plain fallback is tried.
FALLBACK_MAX_LENGTH == 50000
\* The most codes the plain fallback may find and still be accepted.
FALLBACK_MAX_CODES == 3

\* foundCodes after the three context patterns.
ContextCodes(html) ==
    LET low == ToLower(html)
    IN  Unique(ScanBefore(html, low, 1) \o ScanAfter(html, low, 1) \o ScanTag(html, 1))

\* extractCodesWithContext with the fallback taken whatever the length of the
\* page and the number of codes.
extractCodesWithContextUnbounded(html) ==
    IF html = "" THEN <<>>
    ELSE LET foundCodes == ContextCodes(html)
         IN  IF Len(foundCodes) = 0 THEN extractCodes(html) ELSE foundCodes

extractCodesWithContext(html) ==
    IF html = "" THEN <<>>
    ELSE LET foundCodes == ContextCodes(html)
         IN  IF Len(foundCodes) = 0 /\ Len(html) < FALLBACK_MAX_LENGTH
             THEN LET simpleCodes == extractCodes(html)
                  IN  IF Len(simpleCodes) <= FALLBACK_MAX_CODES
                      THEN simpleCodes ELSE <<>>
             ELSE foundCodes

(***************************************************************************)
(* extractor.ts: fetchCodeFromLink                                         *)
(***************************************************************************)

\* The null of JavaScript.
NULL == "null"

errorKeywords == <<"expired", "invalid", "error", "not found", "abgelaufen", "ungültig">>

\* hasError computed on html as it is, not lower-cased.
HasErrorCaseSensitive(html) ==
    \E k \in 1..Len(errorKeywords) : Includes(html, errorKeywords[k])

\* hasError of fetchCodeFromLink.
HasError(html) ==
    LET lowerHtml == ToLower(html)
    IN  \E k \in 1..Len(errorKeywords) : Includes(lowerHtml, errorKeywords[k])

\* What fetchCodeFromLink returns for the outcome of its one axios.get: ok is
\* the request resolving (it rejects on a timeout, a DNS failure, a status of
\* 400 and more), text is response.data being a string (reading the body
\* throws when it is not), data is the body.
fetchCodeFromLink(response) ==
    IF ~response.ok THEN NULL
    ELSE IF ~response.text THEN NULL
    ELSE IF HasError(response.data) THEN NULL
    ELSE LET codes == extractCodesWithContext(response.data)
         IN  IF Len(codes) > 0 THEN codes[1] ELSE NULL

(***************************************************************************)
(* browser-automation.ts: extractHouseholdActionLink                       *)
(***************************************************************************)

NETFLIX == "https://www.netflix.com/"

\* The literal heads of linkPatterns[0..2], lower-cased (the patterns have the
\* i flag), in priority order.
HouseholdPrefixes ==
    <<"https://www.netflix.com/account/update-primary-location",
      "https://www.netflix.com/account/travel/verify",
      "https://www.netflix.com/manageaccountaccess">>

\* linkPatterns[k] matches at position i of html (low is html lower-cased).
\* Patterns 1..3: the literal head and then [^\s<>"]+. Pattern 4: the site,
\* [^\s<>"]*, "household" and then [^\s<>"]+, all inside one run of link characters.
HouseholdPatternAt(html, low, k, i) ==
    IF k <= Len(HouseholdPrefixes)
    THEN /\ StartsWithAt(low, i, HouseholdPrefixes[k])
         /\ LinkRunEnd(html, i + Len(HouseholdPrefixes[k])) >= i + Len(HouseholdPrefixes[k])
    ELSE /\ StartsWithAt(low, i, NETFLIX)
         /\ \E h \in (i + Len(NETFLIX))..Len(html) :
               /\ StartsWithAt(low, h, "household")
               /\ LinkRunEnd(html, i + Len(NETFLIX)) >= h + Len("household")

\* The number of entries of linkPatterns.
N_LINK_PATTERNS == 4

\* html.match(linkPatterns[k]): the positions where the pattern matches.
HouseholdMatches(html, k) ==
    LET low == ToLower(html)
    IN  {i \in 1..Len(html) : HouseholdPatternAt(html, low, k, i)}

\* matches[0] of pattern k: the leftmost match, which runs to the end of the
\* run of link characters.
HouseholdFirstMatch(html, k) ==
    LET first == FirstIn(HouseholdMatches(html, k))
    IN  SubSeq(html, first, LinkRunEnd(html, first))

\* The four replace calls that decode HTML entities.
DecodeEntities(s) ==
    ReplaceAll(ReplaceAll(ReplaceAll(ReplaceAll(s, "&amp;", "&"),
                                     "&lt;", "<"), "&gt;", ">"), "&quot;", "\"")

\* The leftmost match of any of the patterns, whatever its priority.
HouseholdLinkInDocumentOrder(html, k) ==
    LET all == UNION {HouseholdMatches(html, p) : p \in 1..N_LINK_PATTERNS}
    IN  IF all = {} THEN NULL
        ELSE DecodeEntities(SubSeq(html, FirstIn(all), LinkRunEnd(html, FirstIn(all))))

\* for (const pattern of linkPatterns), from pattern k on.
RECURSIVE HouseholdLinkFrom(_, _)
HouseholdLinkFrom(html, k) ==
    IF k > N_LINK_PATTERNS THEN NULL
    ELSE IF HouseholdMatches(html, k) # {}
         THEN DecodeEntities(HouseholdFirstMatch(html, k))
         ELSE HouseholdLinkFrom(html, k + 1)

extractHouseholdActionLink(html) ==
    IF html = "" THEN NULL ELSE HouseholdLinkFrom(html, 1)

(***************************************************************************)
(* messaging/telegram.ts: the Notifier                                     *)
(***************************************************************************)

\* getBot() throws: no bot instance yet and TELEGRAM_BOT_TOKEN is not set.
getBotThrows(theBot, token) == ~theBot /\ token = ""

\* The module variable bot after getBot().
getBot(theBot, token) == theBot \/ token # ""

\* getChatId() throws: TELEGRAM_CHAT_ID is not set.
getChatIdThrows(chatId) == chatId = ""

\* getBot().telegram.sendMessage(getChatId(), ...) resolves: both configuration
\* values are there and Telegram accepts the message.
SendMessageResolves(theBot, token, chatId, accepted) ==
    /\ ~getBotThrows(theBot, token)
    /\ ~getChatIdThrows(chatId)
    /\ accepted

\* sendCodeNotification with the catch block of sendErrorNotification, which
\* logs and does not rethrow.
sendCodeNotificationSwallows(theBot, token, chatId, accepted) == FALSE

\* sendCodeNotification rejects: its catch block logs and rethrows.
sendCodeNotificationThrows(theBot, token, chatId, accepted) ==
    ~SendMessageResolves(theBot, token, chatId, accepted)

\* sendHouseholdNotification rejects: its catch block logs and rethrows.
sendHouseholdNotificationThrows(theBot, token, chatId, accepted) ==
    ~SendMessageResolves(theBot, token, chatId, accepted)

\* sendErrorNotification with the catch block of the other two operations.
sendErrorNotificationRethrows(theBot, token, chatId, accepted) ==
    ~SendMessageResolves(theBot, token, chatId, accepted)

\* sendErrorNotification rejects: never, its catch block logs and returns.
sendErrorNotificationThrows(theBot, token, chatId, accepted) == FALSE

(***************************************************************************)
(* index.ts: the inputs of a run                                           *)
(***************************************************************************)

\* The most unseen messages the mailbox holds at the start of a run.
MaxBatch == 2

\* The parsed messages the mail source may deliver. source is msg.source being
\* there; text and html are parsed.text and parsed.html.
MsgDirectCode ==
    [source |-> TRUE, subject |-> "Login",
     text |-> "code 551234 or 667788",
     html |-> "<a href=\"https://x.io/verify\">v</a>"]
MsgLinks ==
    [source |-> TRUE, subject |-> "Sign in",
     text |-> "id 12345678901",
     html |-> "<a href=\"http://x.io/home\">h</a> https://x.io/Verify?a https://x.io/code"]
MsgNothing ==
    [source |-> TRUE, subject |-> "News",
     text |-> "hello",
     html |-> "<a href=\"https://x.io/home\">h</a>"]
MsgHousehold ==
    [source |-> TRUE, subject |-> "Netflix Haushalt",
     text |-> "code 551234",
     html |-> "<a href=\"https://www.netflix.com/account/update-primary-location?t=A&amp;x=1\">ja</a> https://x.io/verify"]
MsgHouseholdNoLink ==
    [source |-> TRUE, subject |-> "Netflix",
     text |-> "Ja, das war ich 551234",
     html |-> "https://x.io/verify"]
MsgNoSource ==
    [source |-> FALSE, subject |-> "Login", text |-> "", html |-> ""]

Messages ==
    {MsgDirectCode, MsgLinks, MsgNothing, MsgHousehold, MsgHouseholdNoLink, MsgNoSource}

\* The outcomes of the axios.get of fetchCodeFromLink.
Responses ==
    {[ok |-> FALSE, text |-> FALSE, data |-> ""],
     [ok |-> TRUE, text |-> FALSE, data |-> ""],
     [ok |-> TRUE, text |-> TRUE, data |-> "Your code is: 482913"],
     [ok |-> TRUE, text |-> TRUE, data |-> "link expired 482913"],
     [ok |-> TRUE, text |-> TRUE, data |-> "<p>welcome</p>"]}

\* A value of process.env: "" when the variable is not set.
EnvValues == {"", "set"}

\* What confirmNetflixHousehold does for its caller: it resolves to true or
\* false, or it rejects (browser.close() throwing in its finally block).
SUCCESS == "true"
FAILURE == "false"
THROWN == "thrown"
AutomatorOutcomes == {SUCCESS, FAILURE, THROWN}

(***************************************************************************)
(* index.ts: fetchEmails                                                   *)
(***************************************************************************)

VARIABLES
    inbox,          \* the number of unseen messages client.fetch will deliver
    env,            \* process.env
    bot,            \* telegram.ts: the module variable bot is not null
    pc,             \* where fetchEmails is suspended (its pending await)
    batch,          \* the messages delivered so far; msg.uid is the index
    codeLinks,      \* codeLinks of the current message
    linkIdx,        \* the position of the for-of loop over codeLinks
    arg,            \* the argument of the pending call
    processedUIDs,  \* processedUIDs
    lockHeld,       \* the mailbox lock is held
    seen,           \* the uids flagged \Seen on the server
    flagCalls,      \* the calls of client.messageFlagsAdd, each with its uid list
    sent,           \* the notification calls: uid, kind, payload, and whether
                    \* Telegram delivered the message
    fetches,        \* the calls of fetchCodeFromLink: uid, link index, link, result
    automations,    \* the calls of confirmNetflixHousehold: uid, link, result
    finished        \* the uids whose loop body has run to its end

\* The state of one call of confirmNetflixHousehold, from its first statement
\* to what fetchEmails makes of its result.
VARIABLES
    step,           \* where the call is suspended (its pending await)
    browser,        \* the local browser: "null", "open" or "closed"
    visited,        \* the URL page.goto has loaded
    selector,       \* the position in the selector list performLogin is trying
    buttons,        \* the texts of the elements page.$$ returned
    buttonIdx,      \* the position of the for-of loop over buttons
    clicks,         \* the calls of button.click(): the element and whether it resolved
    bodyText,       \* the page text checkForSuccessMessage has read
    diagnostic,     \* the last failure the call has logged
    returned,       \* the value of the return statement reached inside try/catch
    outcome,        \* what the caller gets: "true", "false" or "thrown"
    closeCalls,     \* the number of calls of browser.close()
    events,         \* the calls the Automator made on the browser and the page, in order
    loginField,     \* the page shows an element the login selectors find
    report          \* the arguments of the sendHouseholdNotification call that follows

\* The state of the calls of fetchCodeFromLink.
VARIABLES
    fetchStep,      \* where the current call is
    call,           \* the number of the current call
    url,            \* its argument
    received,       \* what axios.get has resolved or rejected with
    requests,       \* the HTTP GET requests issued: the call and the URL
    results         \* the calls that are over: the call, the response and the outcome

\* The calls of the three operations of telegram.ts: the operation, whether
\* Telegram delivered the message, and whether the call rejected.
VARIABLE calls

\* One application of an extractor to a text.
VARIABLES
    input,          \* the text
    applied,        \* the extractor applied to it
    output          \* what the extractor returned

extractorVars == <<input, applied, output>>

mailVars == <<inbox, env, bot, pc, batch, codeLinks, linkIdx, arg, processedUIDs,
              lockHeld, seen, flagCalls, sent, fetches, automations, finished>>

automatorVars == <<step, browser, visited, selector, buttons, buttonIdx, clicks,
                   bodyText, diagnostic, returned, outcome, closeCalls, report,
                   events, loginField>>

fetcherVars == <<fetchStep, call, url, received, requests, results>>

vars == <<mailVars, automatorVars, fetcherVars, calls, extractorVars>>

\* No call of confirmNetflixHousehold is under way.
AutomatorIdle ==
    /\ step = "idle"
    /\ browser = "null"
    /\ visited = NULL
    /\ selector = 0
    /\ buttons = <<>>
    /\ buttonIdx = 0
    /\ clicks = <<>>
    /\ bodyText = NULL
    /\ diagnostic = ""
    /\ returned = NULL
    /\ outcome = NULL
    /\ closeCalls = 0
    /\ report = <<>>
    /\ events = <<>>
    /\ loginField = FALSE

\* No extractor is being applied.
ExtractorIdle ==
    /\ input = ""
    /\ applied = "none"
    /\ output = <<>>

\* No call of fetchCodeFromLink is under way.
FetcherIdle ==
    /\ fetchStep = "idle"
    /\ call = 0
    /\ url = NULL
    /\ received = NULL
    /\ requests = <<>>
    /\ results = <<>>

\* msg.uid of the message the loop is at.
uid == Len(batch)
\* The message the loop is at.
msg == batch[Len(batch)]

\* The state after connect() and getMailboxLock('INBOX'), at the first
\* iteration of the for-await loop.
Init ==
    /\ inbox \in 0..MaxBatch
    /\ env \in [NETFLIX_EMAIL : EnvValues, NETFLIX_PASSWORD : EnvValues,
                TELEGRAM_BOT_TOKEN : EnvValues, TELEGRAM_CHAT_ID : EnvValues]
    /\ bot = FALSE
    /\ pc = "iterate"
    /\ batch = <<>>
    /\ codeLinks = <<>>
    /\ linkIdx = 0
    /\ arg = NULL
    /\ processedUIDs = <<>>
    /\ lockHeld = TRUE
    /\ seen = {}
    /\ flagCalls = <<>>
    /\ sent = <<>>
    /\ fetches = <<>>
    /\ automations = <<>>
    /\ finished = {}
    /\ AutomatorIdle
    /\ FetcherIdle
    /\ calls = <<>>
    /\ ExtractorIdle

\* isHouseholdUpdate with the subject test alone.
isHouseholdUpdateSubjectOnly(subject, emailText) == Includes(subject, "Haushalt")

\* isHouseholdUpdate.
isHouseholdUpdate(subject, emailText) ==
    \/ Includes(subject, "Haushalt")
    \/ Includes(emailText, "Aktualisierung bestätigen")
    \/ Includes(emailText, "Ja, das war ich")

\* The credentials test with && in the place of ||.
CredentialsBothMissing(netflixEmail, netflixPassword) ==
    netflixEmail = "" /\ netflixPassword = ""

\* !netflixEmail || !netflixPassword.
CredentialsMissing(netflixEmail, netflixPassword) ==
    netflixEmail = "" \/ netflixPassword = ""

\* The last of the direct codes in the place of the first.
LastDirectCode(directCodes) == directCodes[Len(directCodes)]

\* directCodes[0], the code handed to sendCodeNotification.
FirstDirectCode(directCodes) == directCodes[1]

\* The synchronous part of the loop body after simpleParser: where the message
\* goes next (its next await, or "continue"), with the call's argument.
Route(m, netflixEmail, netflixPassword) ==
    IF isHouseholdUpdate(m.subject, m.text)
    THEN LET actionLink == extractHouseholdActionLink(m.html)
         IN  IF actionLink = NULL
             THEN [next |-> "continue", arg |-> NULL, links |-> <<>>]
             ELSE IF CredentialsMissing(netflixEmail, netflixPassword)
             THEN [next |-> "continue", arg |-> NULL, links |-> <<>>]
             ELSE [next |-> "automate", arg |-> actionLink, links |-> <<>>]
    ELSE LET directCodes == extractCodes(m.text)
         IN  IF Len(directCodes) > 0
             THEN [next |-> "sendCode", arg |-> FirstDirectCode(directCodes), links |-> <<>>]
             ELSE LET links == filterCodeLinks(extractLinks(m.html))
                  IN  IF Len(links) > 0
                      THEN [next |-> "fetch", arg |-> NULL, links |-> links]
                      ELSE [next |-> "continue", arg |-> NULL, links |-> <<>>]

\* The loop body ends (continue, break out of the link loop, or its last
\* statement): back to the for-await loop.
Continue ==
    /\ pc' = "iterate"
    /\ finished' = finished \cup {uid}
    /\ codeLinks' = <<>>
    /\ linkIdx' = 0
    /\ arg' = NULL

\* The household branch without its closing continue: the message falls
\* through to the code strategies.
AfterHouseholdSentFallThrough ==
    LET directCodes == extractCodes(msg.text)
    IN  IF Len(directCodes) > 0
        THEN /\ pc' = "sendCode"
             /\ arg' = directCodes[1]
             /\ UNCHANGED <<codeLinks, linkIdx, finished>>
        ELSE Continue

\* After sendHouseholdNotification has resolved and the uid is pushed:
\* continue, to the next message.
AfterHouseholdSent == Continue

\* The link loop without its break: after the notification the loop goes on
\* to the next candidate link.
AfterCodeSentNoBreak ==
    IF linkIdx > 0 /\ linkIdx < Len(codeLinks)
    THEN /\ pc' = "fetch"
         /\ linkIdx' = linkIdx + 1
         /\ arg' = NULL
         /\ UNCHANGED <<codeLinks, finished>>
    ELSE Continue

\* After sendCodeNotification has resolved and the uid is pushed: continue
\* (a direct code) or break out of the link loop, to the next message.
AfterCodeSent == Continue

\* The push placed before the await of the notification.
PushedBeforeSend(thrown) == Append(processedUIDs, uid)

\* processedUIDs after the await of a notification and the push that follows
\* it: the push is not reached when the notification throws.
Pushed(thrown) == IF thrown THEN processedUIDs ELSE Append(processedUIDs, uid)

\* An exception leaving the try block with no finally block: the lock stays held.
AbortWithoutRelease ==
    /\ pc' = "failed"
    /\ lockHeld' = lockHeld
    /\ codeLinks' = <<>>
    /\ linkIdx' = 0
    /\ arg' = NULL

\* An exception leaves the try block: the finally block releases the lock,
\* fetchEmails rejects and the catch handler exits the process.
Abort ==
    /\ pc' = "failed"
    /\ lockHeld' = FALSE
    /\ codeLinks' = <<>>
    /\ linkIdx' = 0
    /\ arg' = NULL

\* The loop taking the next message without awaiting the calls made for the
\* message before it.
IterateWithoutAwait ==
    /\ pc \in {"iterate", "automate", "sendHousehold", "fetch", "sendCode"}
    /\ Len(batch) < inbox
    /\ \E m \in Messages :
          /\ batch' = Append(batch, m)
          /\ IF m.source
             THEN pc' = "parse" /\ finished' = finished
             ELSE pc' = "iterate" /\ finished' = finished \cup {Len(batch) + 1}
    /\ UNCHANGED <<inbox, env, bot, codeLinks, linkIdx, arg, processedUIDs,
                   lockHeld, seen, flagCalls, sent, fetches, automations>>
    /\ UNCHANGED <<automatorVars, fetcherVars, calls, extractorVars>>

\* for await (let msg of messages): the next message arrives; one without
\* source is skipped.
Iterate ==
    /\ pc = "iterate"
    /\ Len(batch) < inbox
    /\ \E m \in Messages :
          /\ batch' = Append(batch, m)
          /\ IF m.source
             THEN pc' = "parse" /\ finished' = finished
             ELSE pc' = "iterate" /\ finished' = finished \cup {Len(batch) + 1}
    /\ UNCHANGED <<inbox, env, bot, codeLinks, linkIdx, arg, processedUIDs,
                   lockHeld, seen, flagCalls, sent, fetches, automations>>
    /\ UNCHANGED <<automatorVars, fetcherVars, calls, extractorVars>>

\* The flush placed inside the loop: it runs as soon as a uid is in the list.
EndOfBatchInsideLoop ==
    /\ pc = "iterate"
    /\ \/ Len(batch) = inbox
       \/ Len(processedUIDs) > 0
    /\ IF Len(processedUIDs) > 0
       THEN pc' = "flush" /\ lockHeld' = lockHeld
       ELSE pc' = "logout" /\ lockHeld' = FALSE
    /\ UNCHANGED <<inbox, env, bot, batch, codeLinks, linkIdx, arg, processedUIDs,
                   seen, flagCalls, sent, fetches, automations, finished>>
    /\ UNCHANGED <<automatorVars, fetcherVars, calls, extractorVars>>

\* The loop is over: with nothing to mark, the finally block releases the lock.
EndOfBatch ==
    /\ pc = "iterate"
    /\ Len(batch) = inbox
    /\ IF Len(processedUIDs) > 0
       THEN pc' = "flush" /\ lockHeld' = lockHeld
       ELSE pc' = "logout" /\ lockHeld' = FALSE
    /\ UNCHANGED <<inbox, env, bot, batch, codeLinks, linkIdx, arg, processedUIDs,
                   seen, flagCalls, sent, fetches, automations, finished>>
    /\ UNCHANGED <<automatorVars, fetcherVars, calls, extractorVars>>

\* await simpleParser(msg.source) resolves, and the message is classified.
Parse ==
    /\ pc = "parse"
    /\ LET r == Route(msg, env.NETFLIX_EMAIL, env.NETFLIX_PASSWORD)
       IN  IF r.next = "continue"
           THEN Continue
           ELSE /\ pc' = r.next
                /\ arg' = r.arg
                /\ codeLinks' = r.links
                /\ linkIdx' = IF r.next = "fetch" THEN 1 ELSE 0
                /\ finished' = finished
    /\ UNCHANGED <<inbox, env, bot, batch, processedUIDs, lockHeld, seen,
                   flagCalls, sent, fetches, automations>>
    /\ UNCHANGED <<automatorVars, fetcherVars, calls, extractorVars>>

\* await simpleParser(msg.source) rejects.
ParseFails ==
    /\ pc = "parse"
    /\ Abort
    /\ UNCHANGED <<inbox, env, bot, batch, processedUIDs, seen, flagCalls, sent,
                   fetches, automations, finished>>
    /\ UNCHANGED <<automatorVars, fetcherVars, calls, extractorVars>>

\* await confirmNetflixHousehold(actionLink, ...).
Automate ==
    /\ pc = "automate"
    /\ \E result \in AutomatorOutcomes :
          /\ automations' = Append(automations,
                                   [uid |-> uid, link |-> arg, result |-> result])
          /\ IF result = THROWN
             THEN Abort
             ELSE /\ pc' = "sendHousehold"
                  /\ arg' = result
                  /\ UNCHANGED <<lockHeld, codeLinks, linkIdx>>
    /\ UNCHANGED <<inbox, env, bot, batch, processedUIDs, seen, flagCalls, sent,
                   fetches, finished>>
    /\ UNCHANGED <<automatorVars, fetcherVars, calls, extractorVars>>

\* await sendHouseholdNotification(success, netflixEmail, ...), and then
\* processedUIDs.push(msg.uid); continue.
SendHousehold ==
    /\ pc = "sendHousehold"
    /\ \E accepted \in BOOLEAN :
          LET thrown == sendHouseholdNotificationThrows(
                            bot, env.TELEGRAM_BOT_TOKEN, env.TELEGRAM_CHAT_ID, accepted)
          IN  /\ sent' = Append(sent, [uid |-> uid, kind |-> "household",
                                       payload |-> arg,
                                       delivered |-> SendMessageResolves(
                                           bot, env.TELEGRAM_BOT_TOKEN,
                                           env.TELEGRAM_CHAT_ID, accepted)])
              /\ bot' = getBot(bot, env.TELEGRAM_BOT_TOKEN)
              /\ processedUIDs' = Pushed(thrown)
              /\ IF thrown
                 THEN Abort /\ UNCHANGED finished
                 ELSE AfterHouseholdSent /\ UNCHANGED lockHeld
    /\ UNCHANGED <<inbox, env, batch, seen, flagCalls, fetches, automations>>
    /\ UNCHANGED <<automatorVars, fetcherVars, calls, extractorVars>>

\* const code = await fetchCodeFromLink(link), in the for-of loop over codeLinks.
FetchLink ==
    /\ pc = "fetch"
    /\ \E response \in Responses :
          LET code == fetchCodeFromLink(response)
          IN  /\ fetches' = Append(fetches, [uid |-> uid, index |-> linkIdx,
                                             link |-> codeLinks[linkIdx],
                                             result |-> code])
              /\ IF code # NULL
                 THEN /\ pc' = "sendCode"
                      /\ arg' = code
                      /\ UNCHANGED <<codeLinks, linkIdx, finished>>
                 ELSE IF linkIdx < Len(codeLinks)
                 THEN /\ linkIdx' = linkIdx + 1
                      /\ UNCHANGED <<pc, arg, codeLinks, finished>>
                 ELSE Continue
    /\ UNCHANGED <<inbox, env, bot, batch, processedUIDs, lockHeld, seen,
                   flagCalls, sent, automations>>
    /\ UNCHANGED <<automatorVars, fetcherVars, calls, extractorVars>>

\* await sendCodeNotification(code, subject, sender), and then
\* processedUIDs.push(msg.uid) and continue (a direct code) or break (a link's).
SendCode ==
    /\ pc = "sendCode"
    /\ \E accepted \in BOOLEAN :
          LET thrown == sendCodeNotificationThrows(
                            bot, env.TELEGRAM_BOT_TOKEN, env.TELEGRAM_CHAT_ID, accepted)
          IN  /\ sent' = Append(sent, [uid |-> uid, kind |-> "code",
                                       payload |-> arg,
                                       delivered |-> SendMessageResolves(
                                           bot, env.TELEGRAM_BOT_TOKEN,
                                           env.TELEGRAM_CHAT_ID, accepted)])
              /\ bot' = getBot(bot, env.TELEGRAM_BOT_TOKEN)
              /\ processedUIDs' = Pushed(thrown)
              /\ IF thrown
                 THEN Abort /\ UNCHANGED finished
                 ELSE AfterCodeSent /\ UNCHANGED lockHeld
    /\ UNCHANGED <<inbox, env, batch, seen, flagCalls, fetches, automations>>
    /\ UNCHANGED <<automatorVars, fetcherVars, calls, extractorVars>>

\* await client.messageFlagsAdd(processedUIDs, ['\\Seen']), and the finally block.
Flush ==
    /\ pc = "flush"
    /\ flagCalls' = Append(flagCalls, processedUIDs)
    /\ lockHeld' = FALSE
    /\ \E ok \in BOOLEAN :
          IF ok
          THEN /\ seen' = seen \cup {processedUIDs[k] : k \in 1..Len(processedUIDs)}
               /\ pc' = "logout"
          ELSE /\ seen' = seen
               /\ pc' = "failed"
    /\ UNCHANGED <<inbox, env, bot, batch, codeLinks, linkIdx, arg, processedUIDs,
                   sent, fetches, automations, finished>>
    /\ UNCHANGED <<automatorVars, fetcherVars, calls, extractorVars>>

\* await client.logout().
Logout ==
    /\ pc = "logout"
    /\ \E ok \in BOOLEAN : pc' = IF ok THEN "done" ELSE "failed"
    /\ UNCHANGED <<inbox, env, bot, batch, codeLinks, linkIdx, arg, processedUIDs,
                   lockHeld, seen, flagCalls, sent, fetches, automations, finished>>
    /\ UNCHANGED <<automatorVars, fetcherVars, calls, extractorVars>>

Next ==
    \/ Iterate
    \/ EndOfBatch
    \/ Parse
    \/ ParseFails
    \/ Automate
    \/ SendHousehold
    \/ FetchLink
    \/ SendCode
    \/ Flush
    \/ Logout

Spec == Init /\ [][Next]_vars

\* The run is over: fetchEmails has resolved or the process has exited.
Terminated == pc \in {"done", "failed"}

(***************************************************************************)
(* browser-automation.ts: confirmNetflixHousehold                          *)
(***************************************************************************)

\* String.prototype.trim.
Trim(s) ==
    LET kept == {k \in 1..Len(s) : ~IsSpace(Ch(s, k))}
    IN  IF kept = {} THEN ""
        ELSE Slice(s, FirstIn(kept), CHOOSE k \in kept : \A j \in kept : j <= k)

buttonKeywords == {"Aktualisierung bestätigen", "Update household", "Confirm update"}

successKeywords ==
    {"erfolgreich", "success", "bestätigt", "confirmed", "aktualisiert", "updated",
     "danke", "thank you"}

\* The lengths of emailSelectors, passwordSelectors and submitSelectors.
N_EMAIL_SELECTORS == 4
N_PASSWORD_SELECTORS == 4
N_SUBMIT_SELECTORS == 3

\* The error text fetchEmails hands to sendHouseholdNotification for a false result.
AUTOMATION_FAILED == "Automation failed - manual intervention required"

\* The most elements page.$$ returns.
MaxButtons == 2

\* What el.textContent may be for an enumerated element.
ElementTexts == {"Abbrechen", "  UPDATE Household ", "Confirm update"}

\* What page.$$ may return.
ButtonLists == UNION {[1..n -> ElementTexts] : n \in 0..MaxButtons}

\* What document.body.textContent may be after the click.
PageTexts ==
    {"Vielen Dank! Ihr Haushalt wurde aktualisiert.", "Bitte warten ...",
     "Etwas ist schiefgelaufen"}

\* What the page.$ probes of isLoginRequired may do: one finds a login field,
\* none does, or one throws.
LoginProbes == {"found", "absent", "throws"}

\* What the probes may do on a page that shows a login field or not: page.$
\* returns the element when there is one, and may throw on either page.
ProbesOn(present) == LoginProbes \ {IF present THEN "absent" ELSE "found"}

\* One turn of a selector loop of performLogin over a field: waitForSelector
\* times out, or it resolves and page.type throws, or both resolve.
SelectorAttempts == {"notFound", "typeThrows", "typed"}

\* The call and what came of it go to the record of calls.
Logged(op, result) == events' = Append(events, [op |-> op, result |-> result])

\* isLoginRequired for every page, written as one that always finds a login field.
isLoginRequiredAlways(probe) == TRUE

\* isLoginRequired: true when a selector finds an element; its catch block
\* returns false.
isLoginRequired(probe) == probe = "found"

\* The test of clickConfirmationButton on the text of an element, declared as
\* every element matching.
MatchesAlways(text) == TRUE

\* buttonKeywords.some(keyword => trimmedText.toLowerCase().includes(keyword.toLowerCase())).
Matches(text) ==
    \E keyword \in buttonKeywords : Includes(ToLower(Trim(text)), ToLower(keyword))

\* checkForSuccessMessage on the page text it read; NULL when reading it threw
\* (its catch block returns false).
checkForSuccessMessage(text) ==
    /\ text # NULL
    /\ \E keyword \in successKeywords : Includes(ToLower(text), ToLower(keyword))

\* The tests on the texts a page may show, computed once.
MatchesOf == [t \in ElementTexts |-> Matches(t)]
SuccessOf == [t \in PageTexts \cup {NULL} |-> checkForSuccessMessage(t)]

\* A return statement inside the try block: the finally block runs next.
Return(value, message) ==
    /\ returned' = value
    /\ diagnostic' = message
    /\ step' = "finally"

\* The catch block of confirmNetflixHousehold with the return leaving the
\* function at once, the finally block not run.
CaughtWithoutFinally ==
    /\ returned' = FAILURE
    /\ diagnostic' = "Browser automation error"
    /\ step' = "returned"

\* The catch block of confirmNetflixHousehold: return false, by way of finally.
Caught == Return(FAILURE, "Browser automation error")

\* clickConfirmationButton returns false: confirmNetflixHousehold goes on to
\* page.content().
NotConfirmed(message) ==
    /\ diagnostic' = message
    /\ step' = "content"

\* The for-of loop over buttons goes on: to the next element, or to its end.
NextButton ==
    IF buttonIdx < Len(buttons)
    THEN /\ buttonIdx' = buttonIdx + 1
         /\ step' = "inspect"
         /\ UNCHANGED diagnostic
    ELSE /\ buttonIdx' = buttonIdx
         /\ NotConfirmed("No matching confirmation button found")

\* fetchEmails is suspended at await confirmNetflixHousehold(actionLink, ...),
\* and the call is at its first statement.
AutomatorInit ==
    /\ inbox = 1
    /\ env \in [NETFLIX_EMAIL : {"set"}, NETFLIX_PASSWORD : {"set"},
                TELEGRAM_BOT_TOKEN : EnvValues, TELEGRAM_CHAT_ID : EnvValues]
    /\ bot = FALSE
    /\ pc = "automate"
    /\ batch \in {<<MsgHousehold>>}
    /\ codeLinks = <<>>
    /\ linkIdx = 0
    /\ arg = extractHouseholdActionLink(batch[1].html)
    /\ processedUIDs = <<>>
    /\ lockHeld = TRUE
    /\ seen = {}
    /\ flagCalls = <<>>
    /\ sent = <<>>
    /\ fetches = <<>>
    /\ automations = <<>>
    /\ finished = {}
    /\ step = "launch"
    /\ browser = "null"
    /\ visited = NULL
    /\ selector = 0
    /\ buttons = <<>>
    /\ buttonIdx = 0
    /\ clicks = <<>>
    /\ bodyText = NULL
    /\ diagnostic = ""
    /\ returned = NULL
    /\ outcome = NULL
    /\ closeCalls = 0
    /\ report = <<>>
    /\ events = <<>>
    /\ loginField = FALSE
    /\ FetcherIdle
    /\ calls = <<>>
    /\ ExtractorIdle

\* browser = await puppeteer.launch(...).
Launch ==
    /\ step = "launch"
    /\ \E ok \in BOOLEAN :
          /\ Logged("launch", IF ok THEN "ok" ELSE "throws")
          /\ IF ok
             THEN /\ browser' = "open"
                  /\ step' = "newPage"
                  /\ UNCHANGED <<returned, diagnostic>>
             ELSE /\ browser' = browser
                  /\ Caught
    /\ UNCHANGED <<visited, selector, buttons, buttonIdx, clicks, bodyText,
                   outcome, closeCalls, report, loginField>>
    /\ UNCHANGED <<mailVars, fetcherVars, calls, extractorVars>>

\* await browser.newPage(), page.setViewport and page.setUserAgent.
NewPage ==
    /\ step = "newPage"
    /\ \E ok \in BOOLEAN :
          /\ Logged("newPage", IF ok THEN "ok" ELSE "throws")
          /\ IF ok
             THEN step' = "goto" /\ UNCHANGED <<returned, diagnostic>>
             ELSE Caught
    /\ UNCHANGED <<browser, visited, selector, buttons, buttonIdx, clicks, bodyText,
                   outcome, closeCalls, report, loginField>>
    /\ UNCHANGED <<mailVars, fetcherVars, calls, extractorVars>>

\* await page.goto(decodedLink, ...), and the pause after it. The page loaded
\* shows a login form or not.
Goto ==
    /\ step = "goto"
    /\ \E ok \in BOOLEAN, present \in BOOLEAN :
          /\ Logged("goto", IF ok THEN "ok" ELSE "throws")
          /\ IF ok
             THEN /\ visited' = DecodeEntities(arg)
                  /\ loginField' = present
                  /\ step' = "isLoginRequired"
                  /\ UNCHANGED <<returned, diagnostic>>
             ELSE /\ visited' = visited
                  /\ loginField' = loginField
                  /\ Caught
    /\ UNCHANGED <<browser, selector, buttons, buttonIdx, clicks, bodyText,
                   outcome, closeCalls, report>>
    /\ UNCHANGED <<mailVars, fetcherVars, calls, extractorVars>>

\* const needsLogin = await isLoginRequired(page), and the branch on it.
CheckLogin ==
    /\ step = "isLoginRequired"
    /\ \E probe \in ProbesOn(loginField) :
          /\ Logged("isLoginRequired", probe)
          /\ IF isLoginRequired(probe)
             THEN step' = "email" /\ selector' = 1
             ELSE step' = "waitForSelector" /\ selector' = selector
    /\ UNCHANGED <<browser, visited, buttons, buttonIdx, clicks, bodyText, diagnostic,
                   returned, outcome, closeCalls, report, loginField>>
    /\ UNCHANGED <<mailVars, fetcherVars, calls, extractorVars>>

\* performLogin: one turn of the loop over emailSelectors (waitForSelector and
\* page.type in one try block, whose catch block continues), and after the
\* last one has failed, return false.
FillEmail ==
    /\ step = "email"
    /\ \E attempt \in SelectorAttempts :
          /\ events' = IF attempt = "notFound" THEN events
                        ELSE Append(events, [op |-> "type email", result |-> attempt])
          /\ IF attempt = "typed"
             THEN /\ step' = "password"
                  /\ selector' = 1
                  /\ UNCHANGED <<returned, diagnostic>>
             ELSE IF selector < N_EMAIL_SELECTORS
             THEN /\ selector' = selector + 1
                  /\ UNCHANGED <<step, returned, diagnostic>>
             ELSE /\ selector' = selector
                  /\ Return(FAILURE, "Could not find email input field")
    /\ UNCHANGED <<browser, visited, buttons, buttonIdx, clicks, bodyText,
                   outcome, closeCalls, report, loginField>>
    /\ UNCHANGED <<mailVars, fetcherVars, calls, extractorVars>>

\* performLogin: one turn of the loop over passwordSelectors.
FillPassword ==
    /\ step = "password"
    /\ \E attempt \in SelectorAttempts :
          /\ events' = IF attempt = "notFound" THEN events
                        ELSE Append(events, [op |-> "type password", result |-> attempt])
          /\ IF attempt = "typed"
             THEN /\ step' = "submit"
                  /\ selector' = 1
                  /\ UNCHANGED <<returned, diagnostic>>
             ELSE IF selector < N_PASSWORD_SELECTORS
             THEN /\ selector' = selector + 1
                  /\ UNCHANGED <<step, returned, diagnostic>>
             ELSE /\ selector' = selector
                  /\ Return(FAILURE, "Could not find password input field")
    /\ UNCHANGED <<browser, visited, buttons, buttonIdx, clicks, bodyText,
                   outcome, closeCalls, report, loginField>>
    /\ UNCHANGED <<mailVars, fetcherVars, calls, extractorVars>>

\* performLogin: one turn of the loop over submitSelectors.
Submit ==
    /\ step = "submit"
    /\ \E ok \in BOOLEAN :
          /\ events' = IF ok THEN Append(events, [op |-> "submit", result |-> "ok"])
                        ELSE events
          /\ IF ok
             THEN /\ step' = "waitForNavigation"
                  /\ selector' = 0
                  /\ UNCHANGED <<returned, diagnostic>>
             ELSE IF selector < N_SUBMIT_SELECTORS
             THEN /\ selector' = selector + 1
                  /\ UNCHANGED <<step, returned, diagnostic>>
             ELSE /\ selector' = selector
                  /\ Return(FAILURE, "Could not find submit button")
    /\ UNCHANGED <<browser, visited, buttons, buttonIdx, clicks, bodyText,
                   outcome, closeCalls, report, loginField>>
    /\ UNCHANGED <<mailVars, fetcherVars, calls, extractorVars>>

\* performLogin: page.waitForNavigation(...).catch(...), the pause, and
\* return !stillNeedsLogin. The page after the submit shows a login form or not.
VerifyLogin ==
    /\ step = "waitForNavigation"
    /\ \E navigated \in BOOLEAN, present \in BOOLEAN :
          \E probe \in ProbesOn(present) :
             /\ loginField' = present
             /\ events' = events \o
                    <<[op |-> "waitForNavigation",
                       result |-> IF navigated THEN "ok" ELSE "timeout"],
                      [op |-> "stillNeedsLogin", result |-> probe]>>
             /\ IF isLoginRequired(probe)
                THEN Return(FAILURE, "Login failed")
                ELSE step' = "waitForSelector" /\ UNCHANGED <<returned, diagnostic>>
    /\ UNCHANGED <<browser, visited, selector, buttons, buttonIdx, clicks, bodyText,
                   outcome, closeCalls, report>>
    /\ UNCHANGED <<mailVars, fetcherVars, calls, extractorVars>>

\* clickConfirmationButton: await page.waitForSelector(...) and
\* const buttons = await page.$$(...); a throw goes to its outer catch block.
Enumerate ==
    /\ step = "waitForSelector"
    /\ \E ok \in BOOLEAN, found \in ButtonLists :
          /\ Logged("enumerate", IF ok THEN "ok" ELSE "throws")
          /\ IF ok
             THEN /\ buttons' = found
                  /\ IF Len(found) > 0
                     THEN /\ buttonIdx' = 1
                          /\ step' = "inspect"
                          /\ UNCHANGED diagnostic
                     ELSE /\ buttonIdx' = 0
                          /\ NotConfirmed("No matching confirmation button found")
             ELSE /\ UNCHANGED <<buttons, buttonIdx>>
                  /\ NotConfirmed("Error clicking confirmation button")
    /\ UNCHANGED <<browser, visited, selector, clicks, bodyText, returned, outcome,
                   closeCalls, report, loginField>>
    /\ UNCHANGED <<mailVars, fetcherVars, calls, extractorVars>>

\* clickConfirmationButton: page.evaluate reads the text of the element and the
\* text is matched; on a match the element is scrolled into view. A throw goes
\* to the inner catch block, which continues.
Inspect ==
    /\ step = "inspect"
    /\ \E ok \in BOOLEAN :
          IF ok /\ MatchesOf[buttons[buttonIdx]]
          THEN step' = "click" /\ UNCHANGED <<buttonIdx, diagnostic>>
          ELSE NextButton
    /\ UNCHANGED <<browser, visited, selector, buttons, clicks, bodyText, returned,
                   outcome, closeCalls, report>>
    /\ UNCHANGED <<events, loginField>>
    /\ UNCHANGED <<mailVars, fetcherVars, calls, extractorVars>>

\* clickConfirmationButton: await button.click(), and the pause after it.
Click ==
    /\ step = "click"
    /\ \E ok \in BOOLEAN :
          /\ clicks' = Append(clicks, [button |-> buttonIdx, resolved |-> ok])
          /\ Logged("click", IF ok THEN "ok" ELSE "throws")
          /\ IF ok
             THEN step' = "checkForSuccessMessage" /\ UNCHANGED <<buttonIdx, diagnostic>>
             ELSE NextButton
    /\ UNCHANGED <<browser, visited, selector, buttons, bodyText, returned, outcome,
                   closeCalls, report, loginField>>
    /\ UNCHANGED <<mailVars, fetcherVars, calls, extractorVars>>

\* const success = await checkForSuccessMessage(page); return success, and in
\* confirmNetflixHousehold the branch on confirmed.
CheckSuccess ==
    /\ step = "checkForSuccessMessage"
    /\ \E text \in PageTexts \cup {NULL} :
          /\ bodyText' = text
          /\ IF SuccessOf[text]
             THEN Return(SUCCESS, "")
             ELSE /\ NotConfirmed("Could not find or click confirmation button")
                  /\ UNCHANGED returned
    /\ UNCHANGED <<browser, visited, selector, buttons, buttonIdx, clicks, outcome,
                   closeCalls, report>>
    /\ UNCHANGED <<events, loginField>>
    /\ UNCHANGED <<mailVars, fetcherVars, calls, extractorVars>>

\* const html = await page.content(); return false.
Content ==
    /\ step = "content"
    /\ \E ok \in BOOLEAN :
          IF ok THEN Return(FAILURE, diagnostic) ELSE Caught
    /\ UNCHANGED <<browser, visited, selector, buttons, buttonIdx, clicks, bodyText,
                   outcome, closeCalls, report>>
    /\ UNCHANGED <<events, loginField>>
    /\ UNCHANGED <<mailVars, fetcherVars, calls, extractorVars>>

\* finally { if (browser) await browser.close() }: the call then completes with
\* the value returned, or with the exception of close().
Finally ==
    /\ step = "finally"
    /\ IF browser = "null"
       THEN /\ outcome' = returned
            /\ UNCHANGED <<browser, closeCalls>>
       ELSE /\ closeCalls' = closeCalls + 1
            /\ \E ok \in BOOLEAN :
                  IF ok
                  THEN browser' = "closed" /\ outcome' = returned
                  ELSE browser' = browser /\ outcome' = THROWN
    /\ step' = "returned"
    /\ UNCHANGED <<visited, selector, buttons, buttonIdx, clicks, bodyText, diagnostic,
                   returned, report>>
    /\ UNCHANGED <<events, loginField>>
    /\ UNCHANGED <<mailVars, fetcherVars, calls, extractorVars>>

\* fetchEmails after the await: the branch on success and the arguments of
\* sendHouseholdNotification; an exception leaves the loop.
Report ==
    /\ step = "returned"
    /\ IF outcome = THROWN
       THEN step' = "propagated" /\ report' = report
       ELSE /\ step' = "reported"
            /\ report' = <<[success |-> outcome = SUCCESS,
                            error |-> IF outcome = SUCCESS THEN "" ELSE AUTOMATION_FAILED]>>
    /\ UNCHANGED <<browser, visited, selector, buttons, buttonIdx, clicks, bodyText,
                   diagnostic, returned, outcome, closeCalls>>
    /\ UNCHANGED <<events, loginField>>
    /\ UNCHANGED <<mailVars, fetcherVars, calls, extractorVars>>

AutomatorNext ==
    \/ Launch
    \/ NewPage
    \/ Goto
    \/ CheckLogin
    \/ FillEmail
    \/ FillPassword
    \/ Submit
    \/ VerifyLogin
    \/ Enumerate
    \/ Inspect
    \/ Click
    \/ CheckSuccess
    \/ Content
    \/ Finally
    \/ Report

AutomatorSpec == AutomatorInit /\ [][AutomatorNext]_vars

\* The call of confirmNetflixHousehold is over.
Completed == step \in {"returned", "reported", "propagated"}

(***************************************************************************)
(* extractor.ts: the calls of fetchCodeFromLink, step by step              *)
(***************************************************************************)

\* The most calls of fetchCodeFromLink in a row.
MaxFetchCalls == 2

\* The URLs the calls are made with.
FetchUrls == {"https://x.io/Verify?a", "https://x.io/code"}

\* The outcomes of axios.get.
FetcherResponses ==
    Responses \cup
    {[ok |-> TRUE, text |-> TRUE, data |-> "This link has EXPIRED. Code: 482913"],
     [ok |-> TRUE, text |-> TRUE, data |-> "PIN: 135790, code 246802"],
     [ok |-> TRUE, text |-> TRUE, data |-> "Page Not Found"]}

\* extractCodesWithContext and hasError on the bodies, computed once.
BodiesOf == {r.data : r \in FetcherResponses}
ContextCodesOf == [b \in BodiesOf |-> extractCodesWithContext(b)]
HasErrorOf == [b \in BodiesOf |-> HasError(b)]

\* No run of fetchEmails is under way.
MailIdle ==
    /\ inbox = 0
    /\ bot = FALSE
    /\ pc = "idle"
    /\ batch = <<>>
    /\ codeLinks = <<>>
    /\ linkIdx = 0
    /\ arg = NULL
    /\ processedUIDs = <<>>
    /\ lockHeld = FALSE
    /\ seen = {}
    /\ flagCalls = <<>>
    /\ sent = <<>>
    /\ fetches = <<>>
    /\ automations = <<>>
    /\ finished = {}

\* The first call of fetchCodeFromLink, at its first statement.
FetcherInit ==
    /\ MailIdle
    /\ env = [NETFLIX_EMAIL |-> "set", NETFLIX_PASSWORD |-> "set",
              TELEGRAM_BOT_TOKEN |-> "set", TELEGRAM_CHAT_ID |-> "set"]
    /\ AutomatorIdle
    /\ calls = <<>>
    /\ fetchStep = "get"
    /\ call = 1
    /\ url \in FetchUrls
    /\ received = NULL
    /\ requests = <<>>
    /\ results = <<>>
    /\ ExtractorIdle

\* The call is over with this value; extracted tells whether
\* extractCodesWithContext was applied.
Finish(value, extracted) ==
    /\ results' = Append(results, [call |-> call, response |-> received,
                                   value |-> value, extracted |-> extracted])
    /\ fetchStep' = "returned"

\* A statement outside any try block throws: the call rejects.
ThrowsUncaught == Finish(THROWN, FALSE)

\* A statement of the try block throws: the catch block is next.
Throws == fetchStep' = "catch" /\ UNCHANGED results

\* The catch block sending the call back to its request.
HandledByRetry ==
    IF Cardinality({k \in 1..Len(requests) : requests[k].call = call}) < 2
    THEN fetchStep' = "get" /\ UNCHANGED results
    ELSE Finish(NULL, FALSE)

\* The catch block: log and return null.
Handled == Finish(NULL, FALSE)

\* const response = await axios.get(url, ...).
Get ==
    /\ fetchStep = "get"
    /\ requests' = Append(requests, [call |-> call, url |-> url])
    /\ \E response \in FetcherResponses :
          /\ received' = response
          /\ IF response.ok
             THEN fetchStep' = "read" /\ UNCHANGED results
             ELSE Throws
    /\ UNCHANGED <<call, url>>
    /\ UNCHANGED <<mailVars, automatorVars, calls, extractorVars>>

\* const html = response.data, the logging of html.substring(0, 500), and
\* html.toLowerCase().
ReadBody ==
    /\ fetchStep = "read"
    /\ IF received.text
       THEN fetchStep' = "check" /\ UNCHANGED results
       ELSE Throws
    /\ UNCHANGED <<call, url, received, requests>>
    /\ UNCHANGED <<mailVars, automatorVars, calls, extractorVars>>

\* if (hasError) return null.
CheckErrors ==
    /\ fetchStep = "check"
    /\ IF HasErrorOf[received.data]
       THEN Finish(NULL, FALSE)
       ELSE fetchStep' = "extract" /\ UNCHANGED results
    /\ UNCHANGED <<call, url, received, requests>>
    /\ UNCHANGED <<mailVars, automatorVars, calls, extractorVars>>

\* const codes = extractCodesWithContext(html); return codes[0] || null.
Extract ==
    /\ fetchStep = "extract"
    /\ LET codes == ContextCodesOf[received.data]
       IN  Finish(IF Len(codes) > 0 THEN codes[1] ELSE NULL, TRUE)
    /\ UNCHANGED <<call, url, received, requests>>
    /\ UNCHANGED <<mailVars, automatorVars, calls, extractorVars>>

\* catch (error) { ...; return null }.
Catch ==
    /\ fetchStep = "catch"
    /\ Handled
    /\ UNCHANGED <<call, url, received, requests>>
    /\ UNCHANGED <<mailVars, automatorVars, calls, extractorVars>>

\* The caller goes on to its next link: the next call of fetchCodeFromLink.
NextCall ==
    /\ fetchStep = "returned"
    /\ call < MaxFetchCalls
    /\ call' = call + 1
    /\ url' \in FetchUrls
    /\ received' = NULL
    /\ fetchStep' = "get"
    /\ UNCHANGED <<requests, results>>
    /\ UNCHANGED <<mailVars, automatorVars, calls, extractorVars>>

FetcherNext ==
    \/ Get
    \/ ReadBody
    \/ CheckErrors
    \/ Extract
    \/ Catch
    \/ NextCall

FetcherSpec == FetcherInit /\ [][FetcherNext]_vars

(***************************************************************************)
(* messaging/telegram.ts: the calls of the three operations                *)
(***************************************************************************)

\* The most calls of the Notifier's operations after the module is loaded.
MaxNotifierCalls == 3

\* The module is loaded: bot is null, and process.env has not been read.
NotifierInit ==
    /\ MailIdle
    /\ env \in [NETFLIX_EMAIL : {"set"}, NETFLIX_PASSWORD : {"set"},
                TELEGRAM_BOT_TOKEN : EnvValues, TELEGRAM_CHAT_ID : EnvValues]
    /\ AutomatorIdle
    /\ FetcherIdle
    /\ calls = <<>>
    /\ ExtractorIdle

\* One call of an operation: getBot() assigns bot, the message is delivered
\* when sendMessage resolves, and the call rejects or not.
Called(op, accepted, thrown) ==
    /\ calls' = Append(calls,
                       [op |-> op,
                        delivered |-> SendMessageResolves(
                            bot, env.TELEGRAM_BOT_TOKEN, env.TELEGRAM_CHAT_ID, accepted),
                        thrown |-> thrown])
    /\ bot' = getBot(bot, env.TELEGRAM_BOT_TOKEN)
    /\ UNCHANGED <<inbox, env, pc, batch, codeLinks, linkIdx, arg, processedUIDs,
                   lockHeld, seen, flagCalls, sent, fetches, automations, finished>>
    /\ UNCHANGED <<automatorVars, fetcherVars, extractorVars>>

\* await sendCodeNotification(code, subject, sender).
CallSendCode ==
    /\ Len(calls) < MaxNotifierCalls
    /\ \E accepted \in BOOLEAN :
           Called("sendCodeNotification", accepted,
                  sendCodeNotificationThrows(
                      bot, env.TELEGRAM_BOT_TOKEN, env.TELEGRAM_CHAT_ID, accepted))

\* await sendHouseholdNotification(success, email, error).
CallSendHousehold ==
    /\ Len(calls) < MaxNotifierCalls
    /\ \E accepted \in BOOLEAN :
           Called("sendHouseholdNotification", accepted,
                  sendHouseholdNotificationThrows(
                      bot, env.TELEGRAM_BOT_TOKEN, env.TELEGRAM_CHAT_ID, accepted))

\* await sendErrorNotification(errorMessage, context).
CallSendError ==
    /\ Len(calls) < MaxNotifierCalls
    /\ \E accepted \in BOOLEAN :
           Called("sendErrorNotification", accepted,
                  sendErrorNotificationThrows(
                      bot, env.TELEGRAM_BOT_TOKEN, env.TELEGRAM_CHAT_ID, accepted))

NotifierNext ==
    \/ CallSendCode
    \/ CallSendHousehold
    \/ CallSendError

NotifierSpec == NotifierInit /\ [][NotifierNext]_vars

(***************************************************************************)
(* extractor.ts, browser-automation.ts: the extractors applied to texts    *)
(***************************************************************************)

\* The most pieces a text is put together from.
MaxTokens == 3

\* The texts of up to n pieces of T, each piece after the first led by sep.
RECURSIVE TextsOf(_, _, _)
TextsOf(T, sep, n) ==
    IF n = 0 THEN {""}
    ELSE LET shorter == TextsOf(T, sep, n - 1)
         IN  shorter \cup {IF t = "" THEN k ELSE t \o sep \o k : t \in shorter, k \in T}

\* n spaces.
RECURSIVE Spaces(_)
Spaces(n) ==
    IF n = 0 THEN ""
    ELSE LET half == Spaces(n \div 2)
         IN  IF n % 2 = 0 THEN half \o half ELSE half \o half \o " "

\* Plain texts: digit runs of 6 and of 11 digits, next to a digit, a letter,
\* white space or punctuation.
CodeTexts == TextsOf({"482913", "12345678901", "7", "x", " ", "-"}, "", MaxTokens)

\* Pages with codes inside and outside the three contexts.
ContextTexts ==
    TextsOf({"482913", "135790", "Code: ", " is your ", "<b>", "</b>"}, "", MaxTokens)

\* Pages around the two fallback thresholds: with and without a context, with
\* three, four and five bare codes, of 49,999, of 50,000 and of 60,000 and
\* more characters.
Pages ==
    {"Your code is: 482913",
     "111111 222222 333333 444444",
     "111111 222222 333333" \o Spaces(49979),
     "111111 222222 333333" \o Spaces(49980),
     "111111 222222 333333 444444 555555" \o Spaces(60000),
     "PIN: 135790 111111 222222 333333 444444" \o Spaces(60000)}

\* HTML bodies with links of the four household families and others.
Htmls ==
    TextsOf({"https://www.netflix.com/account/update-primary-location?t=A&amp;x=1",
             "https://www.netflix.com/account/travel/verify?n=1",
             "https://www.netflix.com/ManageAccountAccess?x",
             "https://www.netflix.com/de/Household/confirm",
             "https://www.netflix.com/account/update-primary-location",
             "https://x.io/verify"}, " ", MaxTokens)

\* A text is drawn, and no extractor is applied yet.
ExtractorInit ==
    /\ MailIdle
    /\ env = [NETFLIX_EMAIL |-> "set", NETFLIX_PASSWORD |-> "set",
              TELEGRAM_BOT_TOKEN |-> "set", TELEGRAM_CHAT_ID |-> "set"]
    /\ AutomatorIdle
    /\ FetcherIdle
    /\ calls = <<>>
    /\ input \in CodeTexts \cup ContextTexts \cup Pages \cup Htmls
    /\ applied = "none"
    /\ output = <<>>

\* extractCodes(text).
ApplyExtractCodes ==
    /\ applied = "none"
    /\ input \in CodeTexts \cup Pages
    /\ applied' = "extractCodes"
    /\ output' = extractCodes(input)
    /\ UNCHANGED input
    /\ UNCHANGED <<mailVars, automatorVars, fetcherVars, calls>>

\* extractCodesWithContext(html).
ApplyExtractCodesWithContext ==
    /\ applied = "none"
    /\ input \in ContextTexts \cup Pages
    /\ applied' = "extractCodesWithContext"
    /\ output' = extractCodesWithContext(input)
    /\ UNCHANGED input
    /\ UNCHANGED <<mailVars, automatorVars, fetcherVars, calls>>

\* extractHouseholdActionLink(html).
ApplyExtractHouseholdActionLink ==
    /\ applied = "none"
    /\ input \in Htmls
    /\ applied' = "extractHouseholdActionLink"
    /\ output' = extractHouseholdActionLink(input)
    /\ UNCHANGED input
    /\ UNCHANGED <<mailVars, automatorVars, fetcherVars, calls>>

ExtractorNext ==
    \/ ApplyExtractCodes
    \/ ApplyExtractCodesWithContext
    \/ ApplyExtractHouseholdActionLink

ExtractorSpec == ExtractorInit /\ [][ExtractorNext]_vars

(***************************************************************************)
(* Observations of a run                                                   *)
(***************************************************************************)

\* The extractors applied to each message the mail source may deliver.
ActionLinkOf == [m \in Messages |-> extractHouseholdActionLink(m.html)]
DirectCodesOf == [m \in Messages |-> extractCodes(m.text)]
CodeLinksOf == [m \in Messages |-> filterCodeLinks(extractLinks(m.html))]

\* The uids of the messages delivered so far.
Uids == 1..Len(batch)

\* The positions in the logs of the calls made for message u.
SentFor(u) == {k \in 1..Len(sent) : sent[k].uid = u}
FetchesFor(u) == {k \in 1..Len(fetches) : fetches[k].uid = u}
AutomationsFor(u) == {k \in 1..Len(automations) : automations[k].uid = u}

\* A notification of the given kind reached Telegram for message u.
DeliveredFor(u, kind) ==
    \E k \in SentFor(u) : sent[k].delivered /\ sent[k].kind = kind

\* u is in the to-mark-as-handled list.
InProcessed(u) == \E k \in 1..Len(processedUIDs) : processedUIDs[k] = u

\* The trigger phrases of the household classification, as the specification
\* states them: in the subject or in the body.
TriggerOf ==
    [m \in Messages |->
        \/ Includes(m.subject, "Haushalt")
        \/ Includes(m.text, "Aktualisierung bestätigen")
        \/ Includes(m.text, "Ja, das war ich")]
HasTrigger(m) == TriggerOf[m]

\* Message u is still inside its loop body.
InBody(u) ==
    /\ u = uid
    /\ pc \in {"parse", "automate", "sendHousehold", "fetch", "sendCode"}

(***************************************************************************)
(* C1                                                                      *)
(***************************************************************************)

\* C1: for every message of the batch, at most one notification call (code or
\* confirmation result) is made, so a message ends with one notification or none.
C1_AtMostOneNotification ==
    \A u \in Uids : Cardinality(SentFor(u)) <= 1

\* A finished run in which one message got its notification from the first of
\* two candidate links and another message got none.
C1_Witness ==
    /\ pc = "done"
    /\ \E u \in Uids :
          /\ Cardinality(SentFor(u)) = 1
          /\ DeliveredFor(u, "code")
          /\ \E k \in FetchesFor(u) :
                fetches[k].index = 1 /\ Len(CodeLinksOf[batch[u]]) > 1
    /\ \E u \in Uids : batch[u].source /\ SentFor(u) = {}

(***************************************************************************)
(* C2                                                                      *)
(***************************************************************************)

\* C2: the batch never halts early: when the Notifier fails to deliver the
\* notification of one message, every later message of the batch is still
\* processed.
C2_BatchNeverHaltsEarly ==
    Terminated =>
        \A k \in 1..Len(sent) :
            ~sent[k].delivered => \A u \in (sent[k].uid + 1)..inbox : u \in finished

(***************************************************************************)
(* C3                                                                      *)
(***************************************************************************)

\* p is a prefix of q.
IsPrefix(p, q) == Len(p) <= Len(q) /\ SubSeq(q, 1, Len(p)) = p

\* The state part of C3: messageFlagsAdd is called at most once, after the loop
\* body of the last message has ended, with the whole list; before that call no
\* message is flagged.
C3_FlushState ==
    /\ Len(flagCalls) <= 1
    /\ flagCalls # <<>> =>
          /\ Len(batch) = inbox
          /\ finished = 1..inbox
          /\ flagCalls[1] = processedUIDs
          /\ pc \in {"logout", "done", "failed"}
    /\ flagCalls = <<>> => seen = {}
    /\ seen \subseteq {processedUIDs[k] : k \in 1..Len(processedUIDs)}

\* C3: the mark-as-handled operation is invoked at most once per run, only after
\* the last message of the batch has been processed, with the whole accumulated
\* list; during iteration the list is only appended to and no message is flagged.
C3_MarkOnceAtEnd ==
    /\ []C3_FlushState
    /\ [][IsPrefix(processedUIDs, processedUIDs')]_vars

\* The one call was made with a list of two uids, both flagged.
C3_Witness ==
    /\ Len(flagCalls) = 1
    /\ Len(flagCalls[1]) = 2
    /\ seen = {1, 2}

(***************************************************************************)
(* C4                                                                      *)
(***************************************************************************)

\* Message u was successfully resolved by its path: a code was delivered for
\* it, or the Automator returned success for it.
ResolvedSuccessfully(u) ==
    \/ DeliveredFor(u, "code")
    \/ \E k \in AutomationsFor(u) : automations[k].result = SUCCESS

\* C4 as stated: a message is in the to-mark-as-handled list only if it was
\* successfully resolved; a household message whose confirmation attempt
\* returned failure is not in the list.
C4_OnlySuccessfulMarked ==
    \A u \in Uids : InProcessed(u) => ResolvedSuccessfully(u)

\* C4 as amended: a message is in the to-mark-as-handled list only if its
\* notification was delivered: a code notification on the code path, the
\* confirmation result (success or failure, as the Automator returned it) on the
\* household path.
C4_OnlyNotifiedMarked ==
    \A u \in Uids :
        InProcessed(u) =>
            IF HasTrigger(batch[u])
            THEN \E k \in SentFor(u), a \in AutomationsFor(u) :
                    /\ sent[k].delivered
                    /\ sent[k].kind = "household"
                    /\ sent[k].payload = automations[a].result
                    /\ automations[a].result \in {SUCCESS, FAILURE}
            ELSE DeliveredFor(u, "code")

\* A household message whose confirmation attempt returned failure is in the
\* list, and flagged at the end of the run.
C4_Witness ==
    \E u \in Uids :
        /\ InProcessed(u)
        /\ u \in seen
        /\ \E a \in AutomationsFor(u) : automations[a].result = FAILURE

(***************************************************************************)
(* C5                                                                      *)
(***************************************************************************)

\* Message u ended without a notification in one of the three ways C5 names:
\* no direct code and no link that gave a code, no action link, no credentials.
EndedUnresolved(u) ==
    /\ u \in finished
    /\ batch[u].source
    /\ IF HasTrigger(batch[u])
       THEN \/ ActionLinkOf[batch[u]] = NULL
            \/ env.NETFLIX_EMAIL = ""
            \/ env.NETFLIX_PASSWORD = ""
       ELSE /\ DirectCodesOf[batch[u]] = <<>>
            /\ \A k \in FetchesFor(u) : fetches[k].result = NULL

\* C5: a message for which no notification was delivered is never marked
\* handled, neither in the list nor on the server; the three unresolved endings
\* deliver none.
C5_UnnotifiedNeverMarked ==
    \A u \in Uids :
        /\ EndedUnresolved(u) => \A k \in SentFor(u) : ~sent[k].delivered
        /\ (\A k \in SentFor(u) : ~sent[k].delivered) => ~InProcessed(u) /\ u \notin seen

\* A finished run that flagged one message and left an unresolved one alone.
C5_Witness ==
    /\ pc = "done"
    /\ seen # {}
    /\ \E u \in Uids : EndedUnresolved(u) /\ u \notin seen /\ ~HasTrigger(batch[u])
                       /\ FetchesFor(u) # {}

(***************************************************************************)
(* C6                                                                      *)
(***************************************************************************)

\* C6: every message whose notification was delivered is marked handled by the
\* time the run ends, also when the notification of a later message fails.
C6_NotifiedIsMarkedAtEnd ==
    (Terminated /\ sent # <<>> /\ ~sent[Len(sent)].delivered) =>
        \A k \in 1..Len(sent) : sent[k].delivered => sent[k].uid \in seen

(***************************************************************************)
(* C7                                                                      *)
(***************************************************************************)

\* Message u is a household message with an action link, processed while the
\* identity or the secret is absent.
HouseholdWithoutCredentials(u) ==
    /\ batch[u].source
    /\ HasTrigger(batch[u])
    /\ ActionLinkOf[batch[u]] # NULL
    /\ (env.NETFLIX_EMAIL = "" \/ env.NETFLIX_PASSWORD = "")

\* C7: for a household message with an action link but without credentials the
\* Automator is never invoked, no notification is sent, and the orchestrator
\* moves to the next message.
C7_NoCredentialsNoAutomation ==
    \A u \in Uids :
        HouseholdWithoutCredentials(u) =>
            /\ AutomationsFor(u) = {}
            /\ SentFor(u) = {}
            /\ u \in finished \/ (u = uid /\ pc \in {"parse", "failed"})

\* Such a message, with the secret alone absent, was passed and the next
\* message has been delivered.
C7_Witness ==
    /\ env.NETFLIX_EMAIL # ""
    /\ env.NETFLIX_PASSWORD = ""
    /\ \E u \in Uids : HouseholdWithoutCredentials(u) /\ u \in finished /\ u < uid

(***************************************************************************)
(* C8                                                                      *)
(***************************************************************************)

HasDirectCode(u) ==
    /\ batch[u].source
    /\ ~HasTrigger(batch[u])
    /\ DirectCodesOf[batch[u]] # <<>>

\* C9: on the code path, when extractCodes of the plain-text body is not empty,
\* the code forwarded to the Notifier is the first extracted one, it is
\* forwarded once the message is past its parsing, and the Remote Fetcher is
\* not called for the message.
C9_DirectCodeFirst ==
    \A u \in Uids :
        HasDirectCode(u) =>
            /\ FetchesFor(u) = {}
            /\ \A k \in SentFor(u) :
                  sent[k].kind = "code" /\ sent[k].payload = DirectCodesOf[batch[u]][1]
            /\ InBody(u) /\ pc # "parse" =>
                  pc = "sendCode" /\ arg = DirectCodesOf[batch[u]][1]
            /\ u \in finished => SentFor(u) # {}

\* The first of two distinct direct codes was delivered, although the message
\* also has a code link.
C9_Witness ==
    \E u \in Uids :
        /\ HasDirectCode(u)
        /\ Len(DirectCodesOf[batch[u]]) = 2
        /\ CodeLinksOf[batch[u]] # <<>>
        /\ \E k \in SentFor(u) : sent[k].delivered /\ sent[k].payload = "551234"

(***************************************************************************)
(* C10                                                                     *)
(***************************************************************************)

\* The candidate links of message u: filterCodeLinks(extractLinks(html)).
CandidateLinks(u) == CodeLinksOf[batch[u]]

\* The number of fetches for message u among the first k entries of the log.
FetchRank(u, k) == Cardinality({j \in FetchesFor(u) : j <= k})

\* C10: the candidate links of a message are fetched in list order, each at
\* most once: the n-th fetch for a message is of its n-th candidate, a link is
\* fetched only if every earlier fetch for the message returned not-found, and
\* none is fetched after one that gave a code.
C10_LinksInOrderUntilFirstCode ==
    \A u \in Uids :
        \A k \in FetchesFor(u) :
            /\ fetches[k].index = FetchRank(u, k)
            /\ fetches[k].index <= Len(CandidateLinks(u))
            /\ fetches[k].link = CandidateLinks(u)[fetches[k].index]
            /\ \A j \in FetchesFor(u) : j < k => fetches[j].result = NULL

\* The first candidate gave nothing, the second one gave the code, and the
\* message ended with that code delivered.
C10_Witness ==
    \E u \in Uids :
        /\ u \in finished
        /\ Len(CandidateLinks(u)) = 2
        /\ \E j, k \in FetchesFor(u) :
              /\ fetches[j].index = 1 /\ fetches[j].result = NULL
              /\ fetches[k].index = 2 /\ fetches[k].result = "482913"
        /\ \E k \in SentFor(u) : sent[k].delivered /\ sent[k].payload = "482913"

(***************************************************************************)
(* C11                                                                     *)
(***************************************************************************)

C12_NoExceptionPropagates == outcome # THROWN

(***************************************************************************)
(* C13                                                                     *)
(***************************************************************************)

\* The text of an element names the confirmation action.
NamesTheAction(text) ==
    \E k \in {"aktualisierung bestätigen", "update household", "confirm update"} :
        Includes(ToLower(text), k)

\* The page text has a success keyword.
SaysSuccess(text) ==
    /\ text # NULL
    /\ \E k \in {"erfolgreich", "success", "bestätigt", "confirmed", "aktualisiert",
                 "updated", "danke", "thank you"} : Includes(ToLower(text), k)

\* An action-matching element was clicked and the page text read after the
\* click has a success keyword.
ClickedAndSuccess ==
    /\ \E k \in 1..Len(clicks) :
          clicks[k].resolved /\ NamesTheAction(buttons[clicks[k].button])
    /\ SaysSuccess(bodyText)

\* C13: a completed call gave true exactly when an action-matching element was
\* clicked and the page text read after the click has a success keyword, and
\* false in every other case.
C13_TrueIffClickedAndSuccess ==
    Completed => IF ClickedAndSuccess THEN outcome = SUCCESS ELSE outcome = FAILURE

(***************************************************************************)
(* C14                                                                     *)
(***************************************************************************)

\* No enumerated element has a text that names the confirmation action.
NoActionElement == \A i \in 1..Len(buttons) : ~NamesTheAction(buttons[i])

\* C14: while no enumerated element matches a confirmation keyword, no click on
\* an element has been attempted, and the call does not complete with true.
C14_NoMatchNoClick ==
    NoActionElement => clicks = <<>> /\ outcome # SUCCESS

\* A call that enumerated a full list of elements, none of them matching, and
\* completed with false, no click attempted.
C14_Witness ==
    /\ Completed
    /\ Len(buttons) = MaxButtons
    /\ NoActionElement
    /\ diagnostic = "No matching confirmation button found"
    /\ outcome = FAILURE
    /\ clicks = <<>>

(***************************************************************************)
(* C15                                                                     *)
(***************************************************************************)

\* C15: the error text of the confirmation-result notification of a failed
\* attempt identifies the failing step: "field not found" when a login field
\* was not found, "confirmation control not found" when no element matched.
C15_ReasonIdentifiesStep ==
    (step = "reported" /\ ~report[1].success) =>
        /\ diagnostic \in {"Could not find email input field",
                           "Could not find password input field",
                           "Could not find submit button"}
               => report[1].error = "field not found"
        /\ diagnostic = "No matching confirmation button found"
               => report[1].error = "confirmation control not found"

(***************************************************************************)
(* C16                                                                     *)
(***************************************************************************)

\* The HTTP GET requests issued by call c of fetchCodeFromLink.
RequestsOf(c) == {k \in 1..Len(requests) : requests[k].call = c}

\* C16: a call of fetchCodeFromLink issues at most one HTTP GET, for its own
\* URL, whether the request succeeds or fails.
C16_AtMostOneRequest ==
    /\ \A c \in 1..call : Cardinality(RequestsOf(c)) <= 1
    /\ \A k \in 1..Len(requests) : requests[k].call = call => requests[k].url = url

\* Two calls are over, the first with its request failed and the second with a
\* code, and two requests were issued in all.
C16_Witness ==
    /\ Len(results) = 2
    /\ ~results[1].response.ok
    /\ results[2].value = "482913"
    /\ Len(requests) = 2

(***************************************************************************)
(* C17                                                                     *)
(***************************************************************************)

\* C17: no call of fetchCodeFromLink rejects; a call whose request failed, or
\* whose response body could not be read, returned null.
C17_NeverRaises ==
    \A k \in 1..Len(results) :
        /\ results[k].value # THROWN
        /\ (~results[k].response.ok \/ ~results[k].response.text) => results[k].value = NULL

\* One call returned null after a failed request, another after a response
\* whose body is not a string.
C17_Witness ==
    \E j, k \in 1..Len(results) :
        /\ ~results[j].response.ok /\ results[j].value = NULL
        /\ results[k].response.ok /\ ~results[k].response.text /\ results[k].value = NULL

(***************************************************************************)
(* C18                                                                     *)
(***************************************************************************)

\* The body, lower-cased, has a failure keyword.
HasFailureKeyword(body) ==
    \E k \in {"expired", "invalid", "error", "not found", "abgelaufen", "ungültig"} :
        Includes(ToLower(body), k)

\* C18: for a response body that was read, a failure keyword in the lower-cased
\* body gives null with extractCodesWithContext not applied; without one the
\* result is the first code of extractCodesWithContext, or null.
C18_FailureKeywordFirst ==
    \A k \in 1..Len(results) :
        LET r == results[k]
        IN  (r.response.ok /\ r.response.text) =>
                IF HasFailureKeyword(r.response.data)
                THEN r.value = NULL /\ ~r.extracted
                ELSE /\ r.extracted
                     /\ r.value = IF Len(ContextCodesOf[r.response.data]) > 0
                                  THEN ContextCodesOf[r.response.data][1]
                                  ELSE NULL

\* A body with an upper-case failure keyword and a code in context gave null,
\* and a body with two codes and no failure keyword gave its first code.
C18_Witness ==
    \E j, k \in 1..Len(results) :
        /\ results[j].response.data = "This link has EXPIRED. Code: 482913"
        /\ extractCodesWithContext(results[j].response.data) = <<"482913">>
        /\ results[j].value = NULL
        /\ results[k].response.data = "PIN: 135790, code 246802"
        /\ results[k].value = "135790"

(***************************************************************************)
(* C19                                                                     *)
(***************************************************************************)

\* C19: a call of sendErrorNotification never rejects, whether its message
\* was delivered or not; a call of sendCodeNotification or of
\* sendHouseholdNotification rejects exactly when its message was not delivered.
C19_FailureSemanticsByShape ==
    \A k \in 1..Len(calls) :
        IF calls[k].op = "sendErrorNotification"
        THEN ~calls[k].thrown
        ELSE calls[k].thrown <=> ~calls[k].delivered

\* With the configuration there, one call of each operation failed to
\* deliver: the two notifications rejected, the error notification did not.
C19_Witness ==
    /\ env.TELEGRAM_BOT_TOKEN # ""
    /\ env.TELEGRAM_CHAT_ID # ""
    /\ \A op \in {"sendCodeNotification", "sendHouseholdNotification",
                   "sendErrorNotification"} :
          \E k \in 1..Len(calls) :
              /\ calls[k].op = op
              /\ ~calls[k].delivered
              /\ calls[k].thrown <=> op # "sendErrorNotification"

(***************************************************************************)
(* C20                                                                     *)
(***************************************************************************)

\* The bot token or the chat id is not set.
ConfigurationMissing == env.TELEGRAM_BOT_TOKEN = "" \/ env.TELEGRAM_CHAT_ID = ""

\* C20: a missing bot token or chat id raises nothing while no operation has
\* been called, and every call of an operation, of whichever of the three,
\* made while it is missing rejects.
C20_MissingConfigurationThrows ==
    ConfigurationMissing =>
        /\ calls = <<>> => ~bot
        /\ \A k \in 1..Len(calls) : calls[k].thrown /\ ~calls[k].delivered

(***************************************************************************)
(* C21                                                                     *)
(***************************************************************************)

\* The values of a sequence.
Range(seq) == {seq[k] : k \in 1..Len(seq)}

\* Six digits start at position i of text.
SixDigitRunAt(text, i) ==
    /\ i + 5 <= Len(text)
    /\ \A k \in i..(i + 5) : Ch(text, k) \in Digits

\* The six digits at position i of text are a digit run of their own: no digit
\* before them and none after them.
NoDigitAround(text, i) ==
    /\ (i = 1 \/ Ch(text, i - 1) \notin Digits)
    /\ (i + 5 = Len(text) \/ Ch(text, i + 6) \notin Digits)

\* No digit, letter or underscore stands before or after the six digits at
\* position i of text.
NoWordCharAround(text, i) ==
    /\ (i = 1 \/ Ch(text, i - 1) \notin WordChars)
    /\ (i + 5 = Len(text) \/ Ch(text, i + 6) \notin WordChars)

\* The positions of text where a run of exactly six digits starts.
SixDigitRuns(text) ==
    {i \in 1..Len(text) : SixDigitRunAt(text, i) /\ NoDigitAround(text, i)}

\* C21, as stated: extractCodes returns every run of exactly six digits, returns
\* only such runs, and returns no value twice.
C21_EveryRunNotNextToADigit ==
    applied = "extractCodes" =>
        /\ \A i \in SixDigitRuns(input) : SubSeq(input, i, i + 5) \in Range(output)
        /\ \A k \in 1..Len(output) :
              \E i \in SixDigitRuns(input) : SubSeq(input, i, i + 5) = output[k]
        /\ \A j, k \in 1..Len(output) : output[j] = output[k] => j = k

\* C21: extractCodes returns every run of exactly six digits that has no
\* letter and no underscore next to it, returns only such runs, and returns no
\* value twice.
C21_EveryRunNotNextToAWordChar ==
    applied = "extractCodes" =>
        /\ \A i \in SixDigitRuns(input) :
              NoWordCharAround(input, i) => SubSeq(input, i, i + 5) \in Range(output)
        /\ \A k \in 1..Len(output) :
              \E i \in SixDigitRuns(input) :
                  /\ NoWordCharAround(input, i)
                  /\ SubSeq(input, i, i + 5) = output[k]
        /\ \A j, k \in 1..Len(output) : output[j] = output[k] => j = k

\* A text with an 11-digit run and a code gave the code alone.
C21_Witness ==
    /\ applied = "extractCodes"
    /\ input = "12345678901 482913"
    /\ output = <<"482913">>

(***************************************************************************)
(* C22                                                                     *)
(***************************************************************************)

RECURSIVE WordsFrom(_, _)
WordsFrom(s, i) ==
    IF i > Len(s) THEN <<>>
    ELSE LET sp == FirstIn({k \in i..Len(s) : Ch(s, k) = " "})
         IN  IF sp = 0 THEN <<Slice(s, i, Len(s))>>
             ELSE <<Slice(s, i, sp - 1)>> \o WordsFrom(s, sp + 1)

\* The link is of family k: 1 the direct update link, 2 travel verification,
\* 3 account access management, 4 any link of the site with "household" in it;
\* each with something after the words that make the family.
InFamily(link, k) ==
    LET low == ToLower(link)
        head == CASE k = 1 -> "https://www.netflix.com/account/update-primary-location"
                  [] k = 2 -> "https://www.netflix.com/account/travel/verify"
                  [] k = 3 -> "https://www.netflix.com/manageaccountaccess"
                  [] OTHER -> "https://www.netflix.com/"
    IN  /\ Len(low) > Len(head)
        /\ Slice(low, 1, Len(head)) = head
        /\ k = 4 => \E h \in (Len(head) + 1)..(Len(low) - 9) :
                        Slice(low, h, h + 8) = "household"

\* The link with its HTML entities decoded.
Decoded(link) ==
    ReplaceAll(ReplaceAll(ReplaceAll(ReplaceAll(link, "&amp;", "&"),
                                     "&lt;", "<"), "&gt;", ">"), "&quot;", "\"")

\* C27: for an HTML body of links, extractHouseholdActionLink returns the first
\* link of the highest-priority family that has any, decoded, wherever links
\* of the other families stand; and null when no family has a link.
C27_FirstLinkOfBestFamily ==
    applied = "extractHouseholdActionLink" =>
        LET links == WordsFrom(input, 1)
            family(k) == {j \in 1..Len(links) : InFamily(links[j], k)}
            best == FirstIn({k \in 1..4 : family(k) # {}})
        IN  IF best = 0
            THEN output = NULL
            ELSE output = Decoded(links[FirstIn(family(best))])

\* A body with a household link, then a travel link and then a direct
\* update link gave the direct update link, its entities decoded.
C27_Witness ==
    /\ applied = "extractHouseholdActionLink"
    /\ input = "https://www.netflix.com/de/Household/confirm"
               \o " https://www.netflix.com/account/travel/verify?n=1"
               \o " https://www.netflix.com/account/update-primary-location?t=A&amp;x=1"
    /\ output = "https://www.netflix.com/account/update-primary-location?t=A&x=1"

(***************************************************************************)
(* C23                                                                     *)
(***************************************************************************)

\* The positions in the record of calls of the call op with that result.
EventsAt(op, result) ==
    {i \in 1..Len(events) : events[i] = [op |-> op, result |-> result]}

\* The positions in the record of calls of the calls in ops.
OpsAt(ops) == {i \in 1..Len(events) : events[i].op \in ops}

\* The calls performLogin makes on the page.
LoginOps == {"type email", "type password", "submit", "waitForNavigation",
             "stillNeedsLogin"}

\* Before position i, login detection found no login field, or the detection
\* run again after the submit found none.
LoginPassedBefore(i) ==
    \E j \in 1..(i - 1) :
        /\ events[j].op \in {"isLoginRequired", "stillNeedsLogin"}
        /\ events[j].result # "found"

\* performLogin was called and returned false.
AuthenticationFailed ==
    /\ EventsAt("isLoginRequired", "found") # {}
    /\ step \notin {"email", "password", "submit", "waitForNavigation"}
    /\ \A i \in OpsAt({"stillNeedsLogin"}) : events[i].result = "found"

\* C23: the Automator keeps the state order. Authentication is attempted only
\* after login detection found a login field; the elements are enumerated and
\* clicked only after the navigation succeeded and login was either not
\* required or succeeded; after a failed launch, navigation or authentication
\* no element is clicked.
C23_StateOrder ==
    /\ step \in {"email", "password", "submit", "waitForNavigation"}
           => EventsAt("isLoginRequired", "found") # {}
    /\ \A i \in OpsAt(LoginOps) :
           \E j \in EventsAt("isLoginRequired", "found") : j < i
    /\ \A i \in OpsAt({"enumerate", "click"}) :
           /\ \E j \in EventsAt("goto", "ok") : j < i
           /\ LoginPassedBefore(i)
    /\ (\/ EventsAt("launch", "throws") # {}
        \/ EventsAt("goto", "throws") # {}
        \/ AuthenticationFailed)
           => clicks = <<>> /\ OpsAt({"click"}) = {}

\* A call that found a login field, logged in, saw the login form gone, and
\* then clicked an element and completed with true.
C23_Witness ==
    /\ EventsAt("isLoginRequired", "found") # {}
    /\ EventsAt("stillNeedsLogin", "absent") # {}
    /\ EventsAt("click", "ok") # {}
    /\ Completed
    /\ outcome = SUCCESS

(***************************************************************************)
(* C24                                                                     *)
(***************************************************************************)

\* The first enumerated element, in document order, whose text names the
\* confirmation action; 0 when there is none.
FirstActionElement ==
    FirstIn({i \in 1..Len(buttons) : NamesTheAction(buttons[i])})

\* C24: in one call at most one click is attempted, and it is on the first
\* element in document order whose text matches a confirmation keyword.
C24_OneClickOnFirstMatch ==
    /\ Len(clicks) <= 1
    /\ \A i \in 1..Len(clicks) : clicks[i].button = FirstActionElement

(***************************************************************************)
(* C25                                                                     *)
(***************************************************************************)

\* performLogin has just returned after its second login detection.
LoginJustVerified ==
    /\ events # <<>>
    /\ events[Len(events)].op = "stillNeedsLogin"

\* C25: after the submit click performLogin returns true exactly when the page
\* shows no login field any more, whether the navigation wait resolved or
\* timed out.
C25_SucceedsIffFormGone ==
    LoginJustVerified => (step = "waitForSelector" <=> ~loginField)

(***************************************************************************)
(* C26                                                                     *)
(***************************************************************************)

\* C26: performLogin types the identity, then the secret, then clicks submit;
\* a sub-step whose selectors are exhausted ends the login with no later
\* sub-step attempted; the identity and the secret are each typed by at most
\* one selector attempt.
C26_LoginSubStepsOnce ==
    /\ \A i \in OpsAt({"type password"}) :
           \E j \in EventsAt("type email", "typed") : j < i
    /\ \A i \in OpsAt({"submit"}) :
           \E j \in EventsAt("type password", "typed") : j < i
    /\ diagnostic = "Could not find email input field"
           => OpsAt({"type password", "submit"}) = {}
    /\ diagnostic = "Could not find password input field"
           => OpsAt({"submit"}) = {}
    /\ Cardinality(OpsAt({"type email"})) <= 1
    /\ Cardinality(OpsAt({"type password"})) <= 1
    /\ Cardinality(OpsAt({"submit"})) <= 1

(***************************************************************************)
(* C28                                                                     *)
(***************************************************************************)

\* The uids of the calls in a log never go down.
InDeliveryOrder(log) ==
    \A j, k \in 1..Len(log) : j < k => log[j].uid <= log[k].uid

\* C28: the messages are processed one at a time, in the order delivered. When
\* a message is delivered the loop body of each message before it is over,
\* every fetch, browser session and notification is made for the message
\* being processed at that moment, and a browser session that was not closed
\* (the Automator threw) is the last call of the run: no two are open at once.
C28_OneMessageAtATime ==
    /\ \A u \in Uids : u < uid => u \in finished
    /\ \A u \in Uids : InBody(u) => u \notin finished
    /\ InDeliveryOrder(sent)
    /\ InDeliveryOrder(fetches)
    /\ InDeliveryOrder(automations)
    /\ \A u \in Uids :
           (SentFor(u) # {} \/ FetchesFor(u) # {} \/ AutomationsFor(u) # {})
               => batch[u].source /\ (u \in finished \/ u = uid)
    /\ \A k \in 1..Len(automations) :
           automations[k].result = THROWN
               => k = Len(automations) /\ pc = "failed" /\ automations[k].uid = uid

\* A run over two household messages: the browser session of the second came
\* after the notification of the first, and the run ended.
C28_Witness ==
    /\ pc = "done"
    /\ Len(automations) = 2
    /\ automations[1].uid = 1
    /\ automations[2].uid = 2
    /\ SentFor(1) # {}
    /\ SentFor(2) # {}

(***************************************************************************)
(* C29                                                                     *)
(***************************************************************************)

\* Message u is a household message with an action link, the credentials are
\* configured, and its loop body is over: by its end, or by an exception
\* after the Automator was called.
HouseholdHandled(u) ==
    /\ batch[u].source
    /\ HasTrigger(batch[u])
    /\ ActionLinkOf[batch[u]] # NULL
    /\ env.NETFLIX_EMAIL # ""
    /\ env.NETFLIX_PASSWORD # ""
    /\ \/ u \in finished
       \/ u = uid /\ pc = "failed" /\ AutomationsFor(u) # {}

\* C29: for each such message the Automator was called exactly once, and
\* exactly one confirmation-result notification was sent, with the value the
\* Automator returned.
C29_OneAutomationOneNotification ==
    \A u \in Uids :
        HouseholdHandled(u) =>
            /\ Cardinality(AutomationsFor(u)) = 1
            /\ Cardinality(SentFor(u)) = 1
            /\ \A k \in SentFor(u), a \in AutomationsFor(u) :
                   /\ sent[k].kind = "household"
                   /\ sent[k].payload = automations[a].result

(***************************************************************************)
(* C30                                                                     *)
(***************************************************************************)

\* C30: the mailbox lock is held while the run is inside the try block and is
\* released on every way out of it: after the loop, and after an exception of
\* the parsing, of a notification, of the Automator or of the batched
\* mark-as-handled call.
C30_LockReleasedOnEveryExit ==
    /\ pc \in {"logout", "done", "failed"} => ~lockHeld
    /\ pc \in {"iterate", "parse", "automate", "sendHousehold", "fetch", "sendCode",
                "flush"} => lockHeld

\* The batched mark-as-handled call threw: nothing is flagged, the run has
\* failed, and the lock is released.
C30_Witness ==
    /\ pc = "failed"
    /\ flagCalls # <<>>
    /\ seen = {}
    /\ ~lockHeld

====
